---------------------------- MODULE CaptureProofs ----------------------------
(***************************************************************************)
(* Theorems about Capture, for every value of its constants: any number of *)
(* hooks, reviews and sweeps, overlapping at will, any of them killed.     *)
(*                                                                         *)
(* The invariants are proved in layers.  Typed says what files and         *)
(* processes hold, and that every event around was recorded by a hook that *)
(* is over; the others assume it.  Prompts and Paired are about one record *)
(* at a time, in a file or in a hook's hands.  Owned says which turn a     *)
(* record is of; on it rest LastKept (a text is the last prompt's), the    *)
(* invariant Lossless (a process about to change a file knows the events   *)
(* in it, or they are safe without it) and TextGone (a text that was       *)
(* discarded is nowhere), up to the changes that were overtaken.           *)
(***************************************************************************)
EXTENDS Capture, SequenceTheorems, WellFoundedInduction, TLAPS

-----------------------------------------------------------------------------
(* Inductive invariants.                                                   *)

Done(h) == h \in due /\ pc[h] = "done"

Args == [kind : Kinds, sig : Signatures, id : Ids] \cup [id : Ids \cup {None}] \cup {None}

\* The records events are added to: those in files, and those a hook holds.
InPlay == {files[t] : t \in {u \in Ids : files[u] # None}} \cup {held[h] : h \in Hooks}

Shared ==
  /\ ids \in {Turns, {Fallback}}
  /\ files \in [Ids -> Record \cup {None}]
  /\ \A t \in Ids : files[t] # None => Len(files[t].events) >= 1
  /\ due \subseteq Hooks
  /\ evicted \subseteq due /\ expired \subseteq due /\ reviewed \subseteq due
  /\ overtaken \subseteq Hooks \cup Reviews
  /\ last \in [Ids -> Hooks \cup {None}]

Locals ==
  /\ pc \in [Procs -> {"idle", "load", "write", "discard", "walk", "unlink", "done"}]
  /\ arg \in [Procs -> Args]
  /\ held \in [Hooks \cup Reviews -> Record]
  /\ todo \in [Sweeps -> SUBSET Ids]
  /\ \A h \in Hooks : /\ pc[h] \in {"idle", "load", "write", "done"}
                      /\ pc[h] # "idle" => arg[h] \in [kind : Kinds, sig : Signatures, id : ids]
                      /\ h \in due => pc[h] \in {"write", "done"}
                      /\ pc[h] = "write" => h \in due
  /\ \A r \in Reviews : /\ pc[r] \in {"idle", "load", "discard", "done"}
                        /\ pc[r] # "idle" => arg[r] \in [id : ids \cup {Fallback}]
  /\ \A w \in Sweeps : /\ pc[w] \in {"idle", "walk", "unlink", "done"}
                       /\ pc[w] = "unlink" => arg[w].id \in Ids

\* What is recorded was written by a hook that is over.
Recording ==
  \A r \in InPlay : /\ Len(r.events) <= MaxEvents
                    /\ \A h \in Recorded(r) : Done(h)

Births == {0} \cup {files[u].born : u \in {v \in Ids : files[v] # None}}
              \cup {held[p].born : p \in Hooks \cup Reviews}

\* The records around have a latest.
Bounded == \E n \in Nat : \A b \in Births : b <= n

Typed == Shared /\ Locals /\ Recording /\ Bounded

-----------------------------------------------------------------------------
(* What the operators return.                                              *)

LEMMA Disjoint ==
  /\ \A h \in Hooks : h \notin Reviews /\ h \notin Sweeps
  /\ \A r \in Reviews : r \notin Sweeps /\ r \notin Hooks
  /\ \A w \in Sweeps : w \notin Reviews /\ w \notin Hooks
BY ConstantsAssumption

\* A bounded set of numbers has a greatest one: the least of its bounds.
LEMMA Greatest ==
  ASSUME NEW S \in SUBSET Nat, S # {}, NEW n \in Nat, \A b \in S : b <= n
  PROVE  \E m \in S : \A b \in S : b <= m
<1> DEFINE Bounds == {k \in Nat : \A b \in S : b <= k}
           Below == {ss \in Nat \X Nat : ss[1] < ss[2]}
<1>1. IsWellFoundedOn(Below, Nat)
  BY NatLessThanWellFounded DEF OpToRel
<1>2. Bounds # {} /\ Bounds \subseteq Nat
  OBVIOUS
<1>3. PICK m \in Bounds : \A k \in Bounds : ~ (<<k, m>> \in Below)
  <2> HIDE DEF Below, Bounds
  <2> QED BY <1>1, <1>2, WFMin
<1>4. m \in Nat /\ \A b \in S : b <= m
  OBVIOUS
<1>5. SUFFICES ASSUME m \notin S PROVE FALSE
  BY <1>4
<1>6. \A b \in S : b < m
  BY <1>4, <1>5
<1>7. m # 0 /\ m - 1 \in Nat
  <2>1. PICK b \in S : TRUE
    OBVIOUS
  <2>2. b \in Nat /\ b < m
    BY <1>6
  <2> QED
    BY <1>4, <2>2
<1>8. m - 1 \in Bounds
  BY <1>4, <1>6, <1>7
<1>9. <<m - 1, m>> \in Below
  BY <1>4, <1>7
<1> QED
  BY <1>3, <1>8, <1>9

\* Sequence elements by their place.
LEMMA Places ==
  ASSUME NEW q \in Seq(Event)
  PROVE  /\ \A i \in 1 .. Len(q) : q[i] \in Event /\ q[i] \in Elems(q)
         /\ \A e \in Elems(q) : \E i \in 1 .. Len(q) : e = q[i]
BY DEF Elems

\* The cap keeps the newest events.
LEMMA CappedProperties ==
  ASSUME NEW q \in Seq(Event), Len(q) >= 1
  PROVE  \E k \in Nat : /\ Capped(q) \in Seq(Event)
                        /\ Len(Capped(q)) = Len(q) - k
                        /\ Len(Capped(q)) \in 1 .. MaxEvents
                        /\ \A i \in 1 .. Len(Capped(q)) : Capped(q)[i] = q[i + k]
<1>1. Len(q) \in Nat /\ MaxEvents \in Nat /\ MaxEvents > 0
  BY ConstantsAssumption
<1>2. CASE Len(q) > MaxEvents
  <2>1. PICK k \in Nat : k = Len(q) - MaxEvents
    BY <1>1, <1>2
  <2>2. Capped(q) = SubSeq(q, k + 1, Len(q))
    BY <1>2, <2>1 DEF Capped
  <2>3. \A i \in k + 1 .. Len(q) : q[i] \in Event
    BY <1>1, <2>1
  <2>4. /\ SubSeq(q, k + 1, Len(q)) \in Seq(Event)
        /\ Len(SubSeq(q, k + 1, Len(q))) = MaxEvents
        /\ \A i \in 1 .. MaxEvents : SubSeq(q, k + 1, Len(q))[i] = q[i + k]
    BY <1>1, <1>2, <2>1, <2>3, SubSeqProperties
  <2>5. MaxEvents = Len(q) - k
    BY <1>1, <2>1
  <2>6. /\ Capped(q) \in Seq(Event) /\ Len(Capped(q)) = MaxEvents
        /\ \A i \in 1 .. MaxEvents : Capped(q)[i] = q[i + k]
    BY <2>2, <2>4
  <2>7. Len(Capped(q)) = Len(q) - k /\ Len(Capped(q)) \in 1 .. MaxEvents
    BY <1>1, <2>5, <2>6
  <2>8. \A i \in 1 .. Len(Capped(q)) : Capped(q)[i] = q[i + k]
    BY <2>6
  <2> QED
    BY <2>6, <2>7, <2>8
<1>3. CASE ~ (Len(q) > MaxEvents)
  <2>1. Capped(q) = q
    BY <1>3 DEF Capped
  <2>2. \A i \in 1 .. Len(q) : q[i + 0] = q[i]
    BY <1>1
  <2> QED
    BY <1>1, <1>3, <2>1, <2>2
<1> QED
  BY <1>2, <1>3

\* Loading: the turn's file, or that of another turn when the event names none.
LEMMA LoadedCases ==
  ASSUME Shared, Bounded, NEW t \in Ids
  PROVE  \/ Live(t) /\ Loaded(t) = files[t]
         \/ /\ ~ Live(t) /\ t = Fallback
            /\ \E u \in Ids : Live(u) /\ Loaded(t) = files[u]
         \/ /\ ~ Live(t) /\ Loaded(t) = Missing
            /\ t = Fallback => \A u \in Ids : ~ Live(u)
<1>1. CASE Live(t)
  BY <1>1 DEF Loaded
<1>2. CASE ~ Live(t) /\ t = Fallback /\ \E u \in Ids : Live(u)
  <2> DEFINE born == {files[u].born : u \in {v \in Ids : Live(v)}}
  <2>1. born \subseteq Births /\ born # {} /\ born \subseteq Nat
    <3>1. \A u \in Ids : Live(u) => files[u] # None /\ files[u] \in Record
      BY DEF Live, Shared
    <3>2. \A u \in Ids : Live(u) => files[u].born \in Nat /\ files[u].born \in Births
      BY <3>1 DEF Record, Births
    <3> QED
      BY <1>2, <3>2
  <2>2. PICK m \in born : \A b \in born : b <= m
    <3> HIDE DEF born
    <3> QED BY <2>1, Greatest DEF Bounded
  <2>3. PICK u \in Ids : Live(u) /\ Latest(u)
    BY <2>2 DEF Latest
  <2>4. (CHOOSE v \in Ids : Live(v) /\ Latest(v)) \in {v \in Ids : Live(v) /\ Latest(v)}
    BY <2>3
  <2> QED
    BY <1>2, <2>4 DEF Loaded
<1>3. CASE ~ Live(t) /\ ~ (t = Fallback /\ \E u \in Ids : Live(u))
  BY <1>3 DEF Loaded
<1> QED
  BY <1>1, <1>2, <1>3

LEMMA MissingRecord ==
  /\ Missing \in Record /\ Missing.events = <<>> /\ Len(Missing.events) = 0
  /\ Missing.id = None /\ Missing.text = None /\ Missing.markers = None
  /\ Recorded(Missing) = {}
<1>1. <<>> \in Seq(Event) /\ Len(<<>>) = 0
  OBVIOUS
<1>2. Missing.events = <<>>
  BY DEF Missing
<1>3. Missing \in Record
  BY <1>1 DEF Missing, Record
<1>4. Recorded(Missing) = {}
  BY <1>1, <1>2 DEF Recorded, Elems
<1> QED
  BY <1>1, <1>2, <1>3, <1>4 DEF Missing

LEMMA NewestProperties ==
  ASSUME Typed
  PROVE  Newest \in Nat /\ \A b \in Births : b <= Newest
<1>1. Births \subseteq Nat /\ Births # {}
  BY DEF Births, Typed, Shared, Locals, Record
<1>2. PICK m \in Births : \A b \in Births : b <= m
  BY <1>1, Greatest DEF Typed, Bounded
<1>3. Newest = CHOOSE b \in Births : \A c \in Births : c <= b
  BY DEF Newest, Births
<1> QED
  BY <1>1, <1>2, <1>3

\* What a hook at its write has.
LEMMA AtWrite ==
  ASSUME Typed, NEW h \in Hooks, pc[h] = "write"
  PROVE  /\ held[h] \in Record /\ held[h] \in InPlay /\ held[h].events \in Seq(Event)
         /\ arg[h].id \in ids /\ arg[h].id \in Ids /\ Kind(h) \in Kinds /\ ids \subseteq Ids
         /\ h \in due /\ ~ Done(h) /\ h \in Procs
<1>1. held[h] \in Record /\ held[h] \in InPlay /\ h \in due /\ h \in Procs /\ ~ Done(h)
  BY DEF Typed, Locals, InPlay, Procs, Done
<1>2. held[h].events \in Seq(Event)
  BY <1>1 DEF Record
<1>3. arg[h] \in [kind : Kinds, sig : Signatures, id : ids]
  BY DEF Typed, Locals
<1>4. ids \subseteq Ids
  BY DEF Typed, Shared, Ids
<1> QED
  BY <1>1, <1>2, <1>3, <1>4 DEF Kind

\* Whether an event is resolved once h has written.
Marked(h, e) == e.resolved \/ (Kind(h) = "success" /\ e \in Prior(h, held[h]))

Mark(h, e) == [e EXCEPT !.resolved = Marked(h, e)]

\* The events after a write: those before it, with the resolved ones marked, and
\* the new one, all but the k oldest.
LEMMA SavedEvents ==
  ASSUME Typed, NEW h \in Hooks, pc[h] = "write"
  PROVE  LET q == held[h].events
             w == Saved(h, held[h]).events
         IN  \E k \in 0 .. Len(q) :
               /\ w \in Seq(Event) /\ Len(w) = Len(q) + 1 - k /\ Len(w) \in 1 .. MaxEvents
               /\ \A i \in 1 .. Len(q) - k :
                    /\ w[i].hook = q[i + k].hook /\ w[i].claims = q[i + k].claims
                    /\ w[i].resolved <=> Marked(h, q[i + k])
               /\ w[Len(w)] = NewEvent(h, held[h])
<1> DEFINE q == held[h].events
           m == Resolved(h, held[h])
           e == NewEvent(h, held[h])
           w == Saved(h, held[h]).events
<1>1. q \in Seq(Event) /\ Len(q) \in Nat
  BY AtWrite
<1>2. \A d \in Elems(q) : d.hook \in Hooks /\ d \in Event
  <2>1. \A d \in Elems(q) : d \in Event
    <3> HIDE DEF q
    <3> QED BY <1>1, Places
  <2> QED
    BY <2>1 DEF Event
<1>3. ASSUME NEW d \in Event
      PROVE  /\ Mark(h, d) \in Event /\ Mark(h, d).hook = d.hook /\ Mark(h, d).claims = d.claims
             /\ Mark(h, d).resolved <=> Marked(h, d)
  BY DEF Event, Mark, Marked
<1>4. /\ m \in Seq(Event) /\ Len(m) = Len(q)
      /\ \A i \in 1 .. Len(q) :
           /\ m[i].hook = q[i].hook /\ m[i].claims = q[i].claims
           /\ m[i].resolved <=> Marked(h, q[i])
  <2>1. m = [i \in 1 .. Len(q) |-> Mark(h, q[i])]
    BY DEF Resolved, Mark, Marked
  <2>2. \A i \in 1 .. Len(q) : q[i] \in Event
    BY <1>1
  <2>3. \A i \in 1 .. Len(q) :
          /\ m[i] \in Event /\ m[i].hook = q[i].hook /\ m[i].claims = q[i].claims
          /\ m[i].resolved <=> Marked(h, q[i])
    <3> HIDE DEF q
    <3> QED BY <1>3, <2>1, <2>2
  <2>4. m \in Seq(Event) /\ Len(m) = Len(q)
    <3> HIDE DEF q, m
    <3> QED BY <1>1, <2>1, <2>3
  <2> QED
    BY <2>3, <2>4
<1>5. e \in Event
  <2>1. {d.hook : d \in Prior(h, held[h])} \subseteq Hooks
    BY <1>2 DEF Prior
  <2> QED
    BY <2>1 DEF NewEvent, Event
<1>6. w = Capped(Append(m, e))
  BY DEF Saved
<1> HIDE DEF q, m, e, w
<1>7. /\ Append(m, e) \in Seq(Event) /\ Len(Append(m, e)) = Len(q) + 1
      /\ \A i \in 1 .. Len(q) : Append(m, e)[i] = m[i]
      /\ Append(m, e)[Len(q) + 1] = e
  BY <1>1, <1>4, <1>5, AppendProperties
<1> DEFINE x == Append(m, e)
<1> HIDE DEF x
<1>8. PICK k \in Nat : /\ w \in Seq(Event) /\ Len(w) = Len(x) - k /\ Len(w) \in 1 .. MaxEvents
                      /\ \A i \in 1 .. Len(w) : w[i] = x[i + k]
  <2>1. x \in Seq(Event) /\ Len(x) >= 1 /\ w = Capped(x)
    BY <1>1, <1>6, <1>7 DEF x
  <2> QED
    BY <2>1, CappedProperties
<1>9. k \in 0 .. Len(q) /\ Len(w) = Len(q) + 1 - k /\ Len(w) \in Nat
  BY <1>1, <1>7, <1>8, ConstantsAssumption DEF x
<1>10. w[Len(w)] = e
  BY <1>1, <1>7, <1>8, <1>9 DEF x
<1>11. \A i \in 1 .. Len(q) - k : w[i] = m[i + k] /\ i + k \in 1 .. Len(q)
  BY <1>1, <1>7, <1>8, <1>9 DEF x
<1>12. \A i \in 1 .. Len(q) - k :
         /\ w[i].hook = q[i + k].hook /\ w[i].claims = q[i + k].claims
         /\ w[i].resolved <=> Marked(h, q[i + k])
  BY <1>4, <1>11
<1> QED
  BY <1>8, <1>9, <1>10, <1>12 DEF q, e, w

LEMMA SavedRecord ==
  ASSUME Typed, NEW h \in Hooks, pc[h] = "write"
  PROVE  LET s == Saved(h, held[h]) IN
           /\ s \in Record /\ Len(s.events) \in 1 .. MaxEvents
           /\ Recorded(s) \subseteq Recorded(held[h]) \cup {h} /\ h \in Recorded(s)
           /\ s.born = Newest + 1 \/ s.born = held[h].born
<1> DEFINE q == held[h].events
           s == Saved(h, held[h])
           w == s.events
<1>1. PICK k \in 0 .. Len(q) :
        /\ w \in Seq(Event) /\ Len(w) = Len(q) + 1 - k /\ Len(w) \in 1 .. MaxEvents
        /\ \A i \in 1 .. Len(q) - k : w[i].hook = q[i + k].hook
        /\ w[Len(w)] = NewEvent(h, held[h])
  BY SavedEvents
<1>2. q \in Seq(Event) /\ Len(q) \in Nat
  BY AtWrite
<1>3. s.born \in Nat /\ (s.born = Newest + 1 \/ s.born = held[h].born)
  BY AtWrite, NewestProperties DEF Saved, Record
<1>4. s \in Record
  <2>1. held[h] \in Record /\ arg[h].id \in Ids
    BY AtWrite
  <2>2. s.events \in Seq(Event)
    BY <1>1
  <2>3. /\ s.id \in Ids \cup {None} /\ s.markers \in Hooks \cup {None}
        /\ s.text \in Hooks \cup {None} /\ s.fresh \in BOOLEAN
    BY <2>1 DEF Saved, Record, TextAfter
  <2>4. s = [id |-> s.id, markers |-> s.markers, text |-> s.text, events |-> s.events,
             born |-> s.born, fresh |-> s.fresh]
    BY DEF Saved
  <2> HIDE DEF s
  <2> QED
    BY <1>3, <2>2, <2>3, <2>4 DEF Record
<1> HIDE DEF w
<1>5. ASSUME NEW g \in {w[i].hook : i \in 1 .. Len(w)}
      PROVE  g \in Recorded(held[h]) \cup {h}
  <2>1. PICK i \in 1 .. Len(w) : g = w[i].hook
    OBVIOUS
  <2>2. CASE i = Len(w)
    BY <1>1, <2>1, <2>2 DEF NewEvent
  <2>3. CASE i # Len(w)
    <3>1. i \in 1 .. Len(q) - k /\ i + k \in 1 .. Len(q)
      <4>1. Len(q) \in Nat /\ Len(w) = Len(q) + 1 - k
        BY <1>1, <1>2
      <4> HIDE DEF q, w
      <4> QED BY <2>3, <4>1
    <3>2. g = q[i + k].hook
      BY <1>1, <2>1, <3>1
    <3>3. q[i + k] \in Elems(q)
      BY <3>1 DEF Elems
    <3> HIDE DEF q
    <3>4. Recorded(held[h]) = {e.hook : e \in Elems(q)}
      BY DEF Recorded, q
    <3> QED
      BY <3>2, <3>3, <3>4
  <2> QED
    BY <2>2, <2>3
<1>6. Recorded(s) = {w[i].hook : i \in 1 .. Len(w)}
  BY DEF Recorded, Elems, w
<1>7. h \in {w[i].hook : i \in 1 .. Len(w)}
  BY <1>1 DEF NewEvent
<1> QED
  BY <1>1, <1>3, <1>4, <1>5, <1>6, <1>7 DEF w

-----------------------------------------------------------------------------
(* What a step changes.                                                    *)

\* A process starts once, what its event says stays, and what was done stays.
LEMMA Stable ==
  ASSUME Typed, [Next]_vars
  PROVE  /\ ids' = ids /\ due \subseteq due'
         /\ \A h \in Hooks : Done(h) => Done(h)'
         /\ \A p \in Hooks \cup Reviews : pc[p] # "idle" => pc'[p] # "idle" /\ arg'[p] = arg[p]
<1> USE Disjoint
<1> DEFINE Result == /\ ids' = ids /\ due \subseteq due'
                     /\ \A h \in Hooks : Done(h) => Done(h)'
                     /\ \A p \in Hooks \cup Reviews :
                          pc[p] # "idle" => pc'[p] # "idle" /\ arg'[p] = arg[p]
<1> pc \in [Procs -> {"idle", "load", "write", "discard", "walk", "unlink", "done"}] /\ arg \in [Procs -> Args]
  BY DEF Typed, Locals
<1>1. ASSUME NEW h \in Hooks, NEW k \in Kinds, NEW s \in Signatures, NEW t \in ids,
             StartHook(h, k, s, t)
      PROVE  Result
  BY <1>1 DEF StartHook, Goto, Done, Procs, history
<1>2. ASSUME NEW h \in Hooks, LoadTurn(h) \/ WriteTurn(h)
      PROVE  Result
  BY <1>2 DEF LoadTurn, WriteTurn, Goto, Done, Procs, history
<1>3. ASSUME NEW r \in Reviews, NEW t, StartReview(r, t)
      PROVE  Result
  BY <1>3 DEF StartReview, Goto, Done, Procs, history
<1>4. ASSUME NEW r \in Reviews, LoadReviewed(r) \/ DiscardTurn(r)
      PROVE  Result
  BY <1>4 DEF LoadReviewed, DiscardTurn, Goto, Done, Procs, history
<1>5. ASSUME NEW w \in Sweeps, StartSweep(w)
      PROVE  Result
  BY <1>5 DEF StartSweep, Goto, Done, Procs, history
<1>6. ASSUME NEW w \in Sweeps, (\E t \in Ids : LookAt(w, t)) \/ Unlink(w) \/ Prune(w)
      PROVE  Result
  BY <1>6 DEF LookAt, Unlink, Prune, Goto, Done, Procs, history
<1>7. ASSUME NEW w \in Sweeps, NEW h \in Hooks, PruneUnder(w, h)
      PROVE  Result
  BY <1>7 DEF PruneUnder, Done, Procs, history
<1>8. ASSUME NEW t \in Ids, Expire(t)
      PROVE  Result
  BY <1>8 DEF Expire, Done
<1>9. UNCHANGED vars => Result
  BY DEF vars, Done
<1> HIDE DEF Result
<1>10. Result
  <2>1. CASE \E h \in Hooks : (\E k \in Kinds, s \in Signatures, t \in ids : StartHook(h, k, s, t))
                              \/ HookStep(h)
    BY <1>1, <1>2, <2>1 DEF HookStep
  <2>2. CASE \E r \in Reviews : (\E t \in ids \cup {Fallback} : StartReview(r, t))
                                \/ LoadReviewed(r) \/ DiscardTurn(r)
    BY <1>3, <1>4, <2>2
  <2>3. CASE \E w \in Sweeps : StartSweep(w) \/ SweepStep(w)
    BY <1>5, <1>6, <1>7, <2>3 DEF SweepStep
  <2>4. CASE \E t \in Ids : Expire(t)
    BY <1>8, <2>4
  <2>5. CASE Next
    BY <2>1, <2>2, <2>3, <2>4, <2>5 DEF Next
  <2> QED
    BY <1>9, <2>5
<1> QED
  BY <1>10 DEF Result

Expired(r) == [r EXCEPT !.fresh = FALSE]

LEMMA ExpiredRecord ==
  ASSUME NEW r \in Record
  PROVE  /\ Expired(r) \in Record /\ Expired(r).fresh = FALSE
         /\ Expired(r).id = r.id /\ Expired(r).markers = r.markers /\ Expired(r).text = r.text
         /\ Expired(r).events = r.events /\ Expired(r).born = r.born
BY DEF Expired, Record

\* The steps that touch no file and no hook's record.
Quiet ==
  \/ UNCHANGED vars
  \/ \E h \in Hooks, k \in Kinds, s \in Signatures, t \in ids : StartHook(h, k, s, t)
  \/ \E r \in Reviews : LoadReviewed(r) \/ \E t \in ids \cup {Fallback} : StartReview(r, t)
  \/ \E w \in Sweeps : StartSweep(w) \/ Prune(w) \/ \E t \in Ids : LookAt(w, t)

LEMMA QuietChange ==
  ASSUME Typed, Quiet
  PROVE  files' = files /\ \A h \in Hooks : held'[h] = held[h]
BY Disjoint DEF Quiet, vars, StartHook, LoadReviewed, StartReview, StartSweep, Prune, LookAt, Typed, Locals

LEMMA NextCases ==
  [Next]_vars =>
    \/ Quiet
    \/ \E h \in Hooks : LoadTurn(h) \/ WriteTurn(h)
    \/ \E r \in Reviews : DiscardTurn(r)
    \/ \E w \in Sweeps : Unlink(w) \/ \E h \in Hooks : PruneUnder(w, h)
    \/ \E t \in Ids : Expire(t)
BY DEF Next, HookStep, SweepStep, Quiet

\* What a step puts in a file, or in a hook's hands.
LEMMA FilesChange ==
  ASSUME Typed, [Next]_vars, NEW t \in Ids
  PROVE  \/ files'[t] = files[t]
         \/ files'[t] = None
         \/ \E h \in Hooks : WriteTurn(h) /\ t = arg[h].id /\ files'[t] = Saved(h, held[h])
         \/ Expire(t) /\ files'[t] = Expired(files[t])
<1> USE DEF Typed, Shared
<1>1. CASE Quiet
  BY <1>1, QuietChange
<1>2. ASSUME NEW h \in Hooks, LoadTurn(h)
      PROVE  files' = files
  BY <1>2 DEF LoadTurn
<1>3. ASSUME NEW h \in Hooks, WriteTurn(h)
      PROVE  \/ files'[t] = files[t]
             \/ t = arg[h].id /\ files'[t] = Saved(h, held[h])
  BY <1>3 DEF WriteTurn
<1>4. ASSUME NEW r \in Reviews, DiscardTurn(r)
      PROVE  files'[t] \in {files[t], None}
  BY <1>4 DEF DiscardTurn
<1>5. ASSUME NEW w \in Sweeps, Unlink(w) \/ \E h \in Hooks : PruneUnder(w, h)
      PROVE  files'[t] \in {files[t], None}
  BY <1>5 DEF Unlink, PruneUnder
<1>6. ASSUME NEW u \in Ids, Expire(u)
      PROVE  \/ files'[t] = files[t]
             \/ Expire(t) /\ files'[t] = Expired(files[t])
  BY <1>6 DEF Expire, Expired
<1> QED
  BY <1>1, <1>2, <1>3, <1>4, <1>5, <1>6, NextCases

LEMMA HeldChange ==
  ASSUME Typed, [Next]_vars, NEW h \in Hooks
  PROVE  \/ held'[h] = held[h]
         \/ held'[h] = Missing
         \/ LoadTurn(h) /\ held'[h] = Loaded(arg[h].id)
<1> USE Disjoint DEF Typed, Locals
<1>1. CASE Quiet
  BY <1>1, QuietChange
<1>2. ASSUME NEW g \in Hooks, LoadTurn(g)
      PROVE  \/ held'[h] = held[h]
             \/ LoadTurn(h) /\ held'[h] = Loaded(arg[h].id)
  BY <1>2 DEF LoadTurn
<1>3. ASSUME NEW g \in Hooks, WriteTurn(g)
      PROVE  held'[h] \in {held[h], Missing}
  BY <1>3 DEF WriteTurn
<1>4. ASSUME NEW r \in Reviews, DiscardTurn(r)
      PROVE  held'[h] = held[h]
  BY <1>4 DEF DiscardTurn
<1>5. ASSUME NEW w \in Sweeps, Unlink(w) \/ \E g \in Hooks : PruneUnder(w, g)
      PROVE  held'[h] \in {held[h], Missing}
  BY <1>5 DEF Unlink, PruneUnder
<1>6. ASSUME NEW u \in Ids, Expire(u)
      PROVE  held'[h] = held[h]
  BY <1>6 DEF Expire
<1> QED
  BY <1>1, <1>2, <1>3, <1>4, <1>5, <1>6, NextCases

LEMMA InPlayChange ==
  ASSUME Typed, [Next]_vars, NEW r \in InPlay'
  PROVE  \/ r \in InPlay
         \/ r = Missing
         \/ \E h \in Hooks : WriteTurn(h) /\ r = Saved(h, held[h])
         \/ \E t \in Ids : Expire(t) /\ files[t] \in InPlay /\ files[t] \in Record /\ r = Expired(files[t])
<1>1. CASE \E t \in Ids : files'[t] # None /\ r = files'[t]
  <2>1. PICK t \in Ids : files'[t] # None /\ r = files'[t]
    BY <1>1
  <2>2. CASE r = files[t]
    BY <2>1, <2>2 DEF InPlay
  <2>3. CASE Expire(t) /\ r = Expired(files[t])
    BY <2>3 DEF Expire, Live, InPlay, Typed, Shared
  <2> QED
    BY <2>1, <2>2, <2>3, FilesChange
<1>2. CASE \E h \in Hooks : r = held'[h]
  <2>1. PICK h \in Hooks : r = held'[h]
    BY <1>2
  <2>2. CASE LoadTurn(h) /\ r = Loaded(arg[h].id)
    <3>1. arg[h].id \in Ids
      BY <2>2 DEF LoadTurn, Typed, Locals, Shared, Ids
    <3> QED
      BY <2>2, <3>1, LoadedCases DEF Live, InPlay, Typed
  <2> QED
    BY <2>1, <2>2, HeldChange DEF InPlay
<1> QED
  BY <1>1, <1>2 DEF InPlay

-----------------------------------------------------------------------------
(* Typed.                                                                  *)

LEMMA RecordedStays ==
  ASSUME Typed, [Next]_vars, NEW r \in InPlay
  PROVE  Len(r.events) <= MaxEvents /\ \A h \in Recorded(r) : Done(h)'
<1>1. \A h \in Recorded(r) : Done(h) /\ h \in Hooks
  BY DEF Typed, Recording, Done, Shared
<1> QED
  BY <1>1, Stable DEF Typed, Recording

LEMMA RecordingNext ==
  ASSUME Typed, [Next]_vars
  PROVE  Recording'
<1> SUFFICES ASSUME NEW r \in InPlay'
             PROVE  Len(r.events) <= MaxEvents /\ \A h \in Recorded(r) : Done(h)'
  BY DEF Recording, Recorded, Elems
<1> MaxEvents \in Nat
  BY ConstantsAssumption
<1>1. CASE r \in InPlay
  BY <1>1, RecordedStays
<1>2. CASE r = Missing
  BY <1>2, MissingRecord
<1>3. ASSUME NEW h \in Hooks, WriteTurn(h), r = Saved(h, held[h])
      PROVE  Len(r.events) <= MaxEvents /\ \A g \in Recorded(r) : Done(g)'
  <2>1. pc[h] = "write" /\ pc' = [pc EXCEPT ![h] = "done"] /\ due' = due
    BY <1>3 DEF WriteTurn, Goto, history
  <2>2. Done(h)'
    BY <2>1, AtWrite DEF Done, Typed, Locals
  <2>3. \A g \in Recorded(held[h]) : Done(g)'
    BY <2>1, AtWrite, RecordedStays
  <2>4. Recorded(r) \subseteq Recorded(held[h]) \cup {h} /\ Len(r.events) \in 1 .. MaxEvents
    BY <1>3, <2>1, SavedRecord
  <2> QED
    BY <2>2, <2>3, <2>4
<1>4. ASSUME NEW t \in Ids, files[t] \in InPlay, files[t] \in Record, r = Expired(files[t])
      PROVE  Len(r.events) <= MaxEvents /\ \A h \in Recorded(r) : Done(h)'
  <2>1. r.events = files[t].events /\ Recorded(r) = Recorded(files[t])
    BY <1>4, ExpiredRecord DEF Recorded
  <2> QED
    BY <1>4, <2>1, RecordedStays
<1> QED
  BY <1>1, <1>2, <1>3, <1>4, InPlayChange

\* Every event that is loaded was due.
LEMMA LoadedRecord ==
  ASSUME Typed, NEW t \in Ids
  PROVE  /\ Loaded(t) \in Record /\ Recorded(Loaded(t)) \subseteq due
         /\ \A f \in Recorded(Loaded(t)) : Done(f)
<1>1. Loaded(t) = Missing \/ \E u \in Ids : Live(u) /\ Loaded(t) = files[u]
  BY LoadedCases DEF Typed
<1>2. CASE Loaded(t) = Missing
  BY <1>2, MissingRecord
<1>3. ASSUME NEW u \in Ids, Live(u), Loaded(t) = files[u]
      PROVE  /\ Loaded(t) \in Record /\ Recorded(Loaded(t)) \subseteq due
             /\ \A f \in Recorded(Loaded(t)) : Done(f)
  <2>1. files[u] \in InPlay /\ files[u] \in Record
    BY <1>3 DEF InPlay, Live, Typed, Shared
  <2> QED
    BY <1>3, <2>1 DEF Typed, Recording, Done
<1> QED
  BY <1>1, <1>2, <1>3

LEMMA FilesTyped ==
  ASSUME Typed, [Next]_vars
  PROVE  /\ files' \in [Ids -> Record \cup {None}]
         /\ \A t \in Ids : files'[t] # None => Len(files'[t].events) >= 1
<1>1. ASSUME NEW t \in Ids
      PROVE  files'[t] \in Record \cup {None} /\ (files'[t] # None => Len(files'[t].events) >= 1)
  <2>1. CASE files'[t] = files[t] \/ files'[t] = None
    BY <2>1 DEF Typed, Shared
  <2>2. ASSUME NEW h \in Hooks, WriteTurn(h), files'[t] = Saved(h, held[h])
        PROVE  files'[t] \in Record /\ Len(files'[t].events) >= 1
    <3>1. pc[h] = "write"
      BY <2>2 DEF WriteTurn, Goto
    <3> QED
      BY <2>2, <3>1, SavedRecord, ConstantsAssumption
  <2>3. CASE Expire(t) /\ files'[t] = Expired(files[t])
    <3>1. files[t] \in Record /\ Len(files[t].events) >= 1
      BY <2>3 DEF Expire, Live, Typed, Shared
    <3> QED
      BY <2>3, <3>1, ExpiredRecord
  <2> QED
    BY <2>1, <2>2, <2>3, FilesChange
<1>2. files' = [t \in Ids |-> files'[t]]
  <2>1. CASE files' = files
    BY <2>1 DEF Typed, Shared
  <2>2. CASE \E h \in Hooks : WriteTurn(h)
    BY <2>2 DEF Typed, Shared, WriteTurn
  <2>3. CASE \E r \in Reviews : DiscardTurn(r)
    BY <2>3 DEF Typed, Shared, DiscardTurn
  <2>4. CASE \E w \in Sweeps : Unlink(w)
    BY <2>4 DEF Typed, Shared, Unlink
  <2>5. CASE \E t \in Ids : Expire(t)
    BY <2>5 DEF Typed, Shared, Expire
  <2>6. Quiet \/ (\E h \in Hooks : LoadTurn(h)) \/ (\E w \in Sweeps, h \in Hooks : PruneUnder(w, h))
          => files' = files
    BY QuietChange DEF LoadTurn, PruneUnder
  <2> QED
    BY <2>1, <2>2, <2>3, <2>4, <2>5, <2>6, NextCases
<1> QED
  BY <1>1, <1>2

LEMMA SharedNext ==
  ASSUME Typed, [Next]_vars
  PROVE  Shared'
<1> DEFINE Result == /\ due' \subseteq Hooks
                     /\ evicted' \subseteq due' /\ expired' \subseteq due' /\ reviewed' \subseteq due'
                     /\ overtaken' \subseteq Hooks \cup Reviews
                     /\ last' \in [Ids -> Hooks \cup {None}]
<1>1. /\ due \subseteq Hooks /\ evicted \subseteq due /\ expired \subseteq due /\ reviewed \subseteq due
      /\ overtaken \subseteq Hooks \cup Reviews /\ last \in [Ids -> Hooks \cup {None}]
      /\ Hooks \subseteq Procs /\ ids \subseteq Ids /\ Fallback \in Ids
  BY DEF Typed, Shared, Procs, Ids
<1>3. ASSUME NEW h \in Hooks, NEW k \in Kinds, NEW s \in Signatures, NEW t \in ids,
             StartHook(h, k, s, t)
      PROVE  Result
  BY <1>1, <1>3 DEF StartHook, history
<1>4. ASSUME NEW r \in Reviews, NEW t \in ids \cup {Fallback}, StartReview(r, t)
      PROVE  Result
  BY <1>1, <1>4 DEF StartReview, history
<1>5. ASSUME NEW w \in Sweeps, StartSweep(w)
      PROVE  Result
  BY <1>1, <1>5 DEF StartSweep, history
<1>6. ASSUME NEW h \in Hooks, LoadTurn(h)
      PROVE  Result
  BY <1>1, <1>6 DEF LoadTurn
<1>7. ASSUME NEW h \in Hooks, WriteTurn(h)
      PROVE  Result
  <2>1. Recorded(held[h]) \subseteq due
    BY <1>7 DEF Typed, Recording, InPlay, Done
  <2> QED
    BY <1>1, <1>7, <2>1 DEF WriteTurn, Overtake
<1>8. ASSUME NEW r \in Reviews, LoadReviewed(r)
      PROVE  Result
  <2>1. arg[r].id \in Ids
    BY <1>1, <1>8 DEF LoadReviewed, Goto, Typed, Locals
  <2> QED
    BY <1>1, <1>8, <2>1, LoadedRecord DEF LoadReviewed
<1>9. ASSUME NEW t \in Ids, Expire(t)
      PROVE  Result
  <2>1. Recorded(files[t]) \subseteq due
    BY <1>9 DEF Expire, Live, Typed, Recording, InPlay, Done
  <2> QED
    BY <1>1, <1>9, <2>1 DEF Expire
<1>10. ASSUME \/ UNCHANGED vars
              \/ \E w \in Sweeps : Unlink(w) \/ Prune(w) \/ \E t \in Ids : LookAt(w, t)
       PROVE  Result
  <2>1. UNCHANGED <<due, evicted, expired, reviewed, overtaken, last>>
    BY <1>10 DEF vars, Unlink, Prune, LookAt, history
  <2> QED
    BY <1>1, <2>1
<1>11. ASSUME NEW r \in Reviews, DiscardTurn(r)
       PROVE  Result
  BY <1>1, <1>11 DEF DiscardTurn, Overtake
<1>12. ASSUME NEW w \in Sweeps, NEW h \in Hooks, PruneUnder(w, h)
       PROVE  Result
  BY <1>1, <1>12 DEF PruneUnder
<1>13. Result
  <2> HIDE DEF Result
  <2> QED
    BY <1>3, <1>4, <1>5, <1>6, <1>7, <1>8, <1>9, <1>10, <1>11, <1>12, NextCases DEF Quiet
<1> QED
  BY <1>13, FilesTyped, Stable DEF Typed, Shared

\* What a process of any kind holds after a step.
LEMMA HeldByAll ==
  ASSUME Typed, [Next]_vars, NEW p \in Hooks \cup Reviews
  PROVE  \/ held'[p] = held[p]
         \/ held'[p] \in Record /\ held'[p].born = 0
         \/ \E t \in Ids : held'[p] = Loaded(t)
<1>1. CASE p \in Hooks
  <2>1. LoadTurn(p) => arg[p].id \in Ids
    BY <1>1 DEF LoadTurn, Typed, Locals, Shared, Ids
  <2>2. Missing \in Record /\ Missing.born = 0
    BY MissingRecord DEF Missing
  <2> QED
    BY <1>1, <2>1, <2>2, HeldChange
<1>2. CASE p \in Reviews
  <2>1. ASSUME NEW r \in Reviews, LoadReviewed(r)
        PROVE  held'[p] = held[p] \/ \E t \in Ids : held'[p] = Loaded(t)
    <3>1. arg[r].id \in Ids
      BY <2>1 DEF LoadReviewed, Goto, Typed, Locals, Shared, Ids
    <3> QED
      BY <2>1, <3>1 DEF LoadReviewed, Typed, Locals
  <2>2. ASSUME NEW r \in Reviews, DiscardTurn(r)
        PROVE  held'[p] = held[p] \/ (held'[p] \in Record /\ held'[p].born = 0)
    <3>1. held[r] \in Record
      BY DEF Typed, Locals
    <3>2. /\ [Missing EXCEPT !.id = held[r].id, !.text = held[r].text] \in Record
          /\ [Missing EXCEPT !.id = held[r].id, !.text = held[r].text].born = 0
      BY <3>1, MissingRecord DEF Record, Missing
    <3> QED
      BY <2>2, <3>2 DEF DiscardTurn, Typed, Locals
  <2>3. ASSUME NEW h \in Hooks, LoadTurn(h) \/ WriteTurn(h)
        PROVE  held'[p] = held[p]
    BY <1>2, <2>3, Disjoint DEF LoadTurn, WriteTurn, Typed, Locals
  <2>4. ASSUME NEW w \in Sweeps, NEW h \in Hooks, PruneUnder(w, h)
        PROVE  held'[p] = held[p]
    BY <1>2, <2>4, Disjoint DEF PruneUnder, Typed, Locals
  <2>5. ASSUME \/ UNCHANGED vars
               \/ \E h \in Hooks, k \in Kinds, s \in Signatures, t \in ids : StartHook(h, k, s, t)
               \/ \E r \in Reviews, t \in ids \cup {Fallback} : StartReview(r, t)
               \/ \E w \in Sweeps : StartSweep(w) \/ Prune(w) \/ Unlink(w) \/ \E t \in Ids : LookAt(w, t)
               \/ \E t \in Ids : Expire(t)
        PROVE  held'[p] = held[p]
    BY <2>5 DEF vars, StartHook, StartReview, StartSweep, Prune, Unlink, LookAt, Expire
  <2> QED
    BY <2>1, <2>2, <2>3, <2>4, <2>5, NextCases DEF Quiet
<1> QED
  BY <1>1, <1>2

LEMMA BoundedNext ==
  ASSUME Typed, [Next]_vars
  PROVE  Bounded'
<1>1. Newest \in Nat /\ \A b \in Births : b <= Newest
  BY NewestProperties
<1>2. PICK n \in Nat : n = Newest + 1
  BY <1>1
<1>3. \A b \in Births : b \in Nat /\ b <= n
  BY <1>1, <1>2 DEF Births, Typed, Shared, Locals, Record
<1>4. 0 <= n
  BY <1>2
<1>5. ASSUME NEW t \in Ids, files'[t] # None
      PROVE  files'[t].born <= n
  <2>1. CASE files'[t] = files[t]
    BY <1>3, <1>5, <2>1 DEF Births
  <2>2. ASSUME NEW h \in Hooks, WriteTurn(h), files'[t] = Saved(h, held[h])
        PROVE  files'[t].born <= n
    <3>1. pc[h] = "write" /\ held[h].born \in Births
      BY <2>2 DEF WriteTurn, Goto, Births
    <3>2. files'[t].born = Newest + 1 \/ files'[t].born = held[h].born
      BY <2>2, <3>1, SavedRecord
    <3> QED
      BY <1>1, <1>2, <1>3, <3>1, <3>2
  <2>3. CASE Expire(t) /\ files'[t] = Expired(files[t])
    <3>1. files[t] \in Record /\ files[t] # None
      BY <2>3 DEF Expire, Live, Typed, Shared
    <3>2. files'[t].born = files[t].born /\ files[t].born \in Births
      BY <2>3, <3>1, ExpiredRecord DEF Births
    <3> QED
      BY <1>3, <3>2
  <2> QED
    BY <1>5, <2>1, <2>2, <2>3, FilesChange
<1>6. ASSUME NEW p \in Hooks \cup Reviews
      PROVE  held'[p].born <= n
  <2>1. CASE held'[p] = held[p]
    BY <1>3, <1>6, <2>1 DEF Births
  <2>2. CASE held'[p].born = 0
    BY <1>4, <2>2
  <2>3. ASSUME NEW t \in Ids, held'[p] = Loaded(t)
        PROVE  held'[p].born <= n
    <3>1. Loaded(t) = Missing \/ \E u \in Ids : Live(u) /\ Loaded(t) = files[u]
      BY LoadedCases DEF Typed
    <3>2. \A u \in Ids : Live(u) => files[u].born \in Births
      BY DEF Live, Births
    <3>3. Missing.born = 0
      BY DEF Missing
    <3> QED
      BY <1>3, <1>4, <2>3, <3>1, <3>2, <3>3
  <2> QED
    BY <2>1, <2>2, <2>3, HeldByAll
<1> QED
  BY <1>2, <1>4, <1>5, <1>6 DEF Bounded, Births

\* A step of a process moves it along; a sweep may stop a hook too.
LEMMA Moves ==
  ASSUME Typed, [Next]_vars
  PROVE  \/ pc' = pc
         \/ \E h \in Hooks : /\ pc[h] \in {"idle", "load", "write"} /\ pc'[h] \in {"load", "write", "done"}
                            /\ pc' = [pc EXCEPT ![h] = pc'[h]]
         \/ \E r \in Reviews : /\ pc[r] \in {"idle", "load", "discard"} /\ pc'[r] \in {"load", "discard", "done"}
                              /\ pc' = [pc EXCEPT ![r] = pc'[r]]
         \/ \E w \in Sweeps : /\ pc[w] \in {"idle", "walk", "unlink"} /\ pc'[w] \in {"walk", "unlink", "done"}
                             /\ pc' = [pc EXCEPT ![w] = pc'[w]]
         \/ \E w \in Sweeps, h \in Hooks :
              pc[w] = "walk" /\ pc[h] = "write" /\ pc' = [pc EXCEPT ![w] = "done", ![h] = "done"]
<1> pc \in [Procs -> {"idle", "load", "write", "discard", "walk", "unlink", "done"}]
  BY DEF Typed, Locals
<1> USE Disjoint DEF Procs
<1>1. ASSUME NEW h \in Hooks,
             \/ \E k \in Kinds, s \in Signatures, t \in ids : StartHook(h, k, s, t)
             \/ LoadTurn(h) \/ WriteTurn(h)
      PROVE  /\ pc[h] \in {"idle", "load", "write"} /\ pc'[h] \in {"load", "write", "done"}
             /\ pc' = [pc EXCEPT ![h] = pc'[h]]
  BY <1>1 DEF StartHook, LoadTurn, WriteTurn, Goto
<1>2. ASSUME NEW r \in Reviews,
             LoadReviewed(r) \/ DiscardTurn(r) \/ \E t \in ids \cup {Fallback} : StartReview(r, t)
      PROVE  /\ pc[r] \in {"idle", "load", "discard"} /\ pc'[r] \in {"load", "discard", "done"}
             /\ pc' = [pc EXCEPT ![r] = pc'[r]]
  BY <1>2 DEF StartReview, LoadReviewed, DiscardTurn, Goto
<1>3. ASSUME NEW w \in Sweeps,
             StartSweep(w) \/ Unlink(w) \/ Prune(w) \/ \E t \in Ids : LookAt(w, t)
      PROVE  /\ pc[w] \in {"idle", "walk", "unlink"} /\ pc'[w] \in {"walk", "unlink", "done"}
             /\ pc' = [pc EXCEPT ![w] = pc'[w]]
  BY <1>3 DEF StartSweep, Unlink, Prune, LookAt, Goto
<1>4. \A w \in Sweeps, h \in Hooks : PruneUnder(w, h) =>
        pc[w] = "walk" /\ pc[h] = "write" /\ pc' = [pc EXCEPT ![w] = "done", ![h] = "done"]
  BY DEF PruneUnder
<1>5. UNCHANGED vars \/ (\E t \in Ids : Expire(t)) => pc' = pc
  BY DEF vars, Expire
<1> QED
  BY <1>1, <1>2, <1>3, <1>4, <1>5, NextCases DEF Quiet

LEMMA ArgChange ==
  ASSUME Typed, [Next]_vars
  PROVE  /\ arg' \in [Procs -> Args]
         /\ \A h \in Hooks : pc'[h] # "idle" =>
              arg'[h] \in [kind : Kinds, sig : Signatures, id : ids]
         /\ \A r \in Reviews : pc'[r] # "idle" => arg'[r] \in [id : ids \cup {Fallback}]
         /\ \A w \in Sweeps : pc'[w] = "unlink" => arg'[w].id \in Ids
<1> DEFINE Result == /\ arg' \in [Procs -> Args]
                     /\ \A h \in Hooks : pc'[h] # "idle" =>
                          arg'[h] \in [kind : Kinds, sig : Signatures, id : ids]
                     /\ \A r \in Reviews : pc'[r] # "idle" => arg'[r] \in [id : ids \cup {Fallback}]
                     /\ \A w \in Sweeps : pc'[w] = "unlink" => arg'[w].id \in Ids
<1>1. /\ pc \in [Procs -> {"idle", "load", "write", "discard", "walk", "unlink", "done"}]
      /\ arg \in [Procs -> Args]
      /\ \A h \in Hooks : pc[h] # "idle" => arg[h] \in [kind : Kinds, sig : Signatures, id : ids]
      /\ \A r \in Reviews : pc[r] # "idle" => arg[r] \in [id : ids \cup {Fallback}]
      /\ \A w \in Sweeps : pc[w] = "unlink" => arg[w].id \in Ids
  BY DEF Typed, Locals
<1>2. /\ Hooks \subseteq Procs /\ Reviews \subseteq Procs /\ Sweeps \subseteq Procs
      /\ ids \subseteq Ids /\ Fallback \in Ids
  BY DEF Procs, Typed, Shared, Ids
<1>3. ASSUME NEW h \in Hooks, NEW k \in Kinds, NEW s \in Signatures, NEW t \in ids,
             StartHook(h, k, s, t)
      PROVE  Result
  <2>1. [kind |-> k, sig |-> s, id |-> t] \in [kind : Kinds, sig : Signatures, id : ids]
    OBVIOUS
  <2>2. [kind |-> k, sig |-> s, id |-> t] \in Args
    BY <1>2 DEF Args
  <2> QED
    BY <1>1, <1>2, <1>3, <2>1, <2>2, Disjoint DEF StartHook, Goto
<1>4. ASSUME NEW r \in Reviews, NEW t \in ids \cup {Fallback}, StartReview(r, t)
      PROVE  Result
  <2>1. [id |-> t] \in [id : ids \cup {Fallback}] /\ [id |-> t] \in Args
    BY <1>2 DEF Args
  <2> QED
    BY <1>1, <1>2, <1>4, <2>1, Disjoint DEF StartReview, Goto
<1>5. ASSUME NEW w \in Sweeps, NEW a, a \in Ids \cup {None},
             arg' = [arg EXCEPT ![w] = [id |-> a]], pc' = [pc EXCEPT ![w] = pc'[w]],
             pc'[w] = "unlink" => a \in Ids
      PROVE  Result
  <2>1. [id |-> a] \in Args
    BY <1>5 DEF Args
  <2> QED
    BY <1>1, <1>2, <1>5, <2>1, Disjoint
<1>6. ASSUME NEW w \in Sweeps, StartSweep(w) \/ Unlink(w) \/ \E t \in Ids : LookAt(w, t)
      PROVE  Result
  <2>1. StartSweep(w) \/ Unlink(w) => arg' = [arg EXCEPT ![w] = [id |-> None]] /\ pc'[w] = "walk"
    BY <1>1, <1>2 DEF StartSweep, Unlink, Goto
  <2>2. pc' = [pc EXCEPT ![w] = pc'[w]]
    BY <1>1, <1>2, <1>6 DEF StartSweep, Unlink, LookAt, Goto
  <2>3. ASSUME NEW t \in Ids, LookAt(w, t)
        PROVE  \E a \in Ids \cup {None} : arg' = [arg EXCEPT ![w] = [id |-> a]] /\ (pc'[w] = "unlink" => a \in Ids)
    BY <1>1, <1>2, <2>3 DEF LookAt, Goto
  <2>4. PICK a \in Ids \cup {None} : arg' = [arg EXCEPT ![w] = [id |-> a]] /\ (pc'[w] = "unlink" => a \in Ids)
    BY <1>6, <2>1, <2>3
  <2> HIDE DEF Result
  <2> QED
    BY <1>5, <2>2, <2>4
<1>7. ASSUME arg' = arg, \A p \in Procs : pc[p] = "idle" => pc'[p] = "idle",
             \A w \in Sweeps : pc'[w] = "unlink" => pc[w] = "unlink"
      PROVE  Result
  BY <1>1, <1>2, <1>7
<1>8. ASSUME \/ UNCHANGED vars \/ \E t \in Ids : Expire(t)
             \/ \E h \in Hooks : LoadTurn(h) \/ WriteTurn(h)
             \/ \E r \in Reviews : LoadReviewed(r) \/ DiscardTurn(r)
             \/ \E w \in Sweeps : Prune(w) \/ \E h \in Hooks : PruneUnder(w, h)
      PROVE  /\ arg' = arg /\ \A p \in Procs : pc[p] = "idle" => pc'[p] = "idle"
             /\ \A w \in Sweeps : pc'[w] = "unlink" => pc[w] = "unlink"
  <2>1. CASE UNCHANGED vars \/ \E t \in Ids : Expire(t)
    BY <2>1 DEF vars, Expire
  <2>2. ASSUME NEW h \in Hooks, LoadTurn(h) \/ WriteTurn(h)
        PROVE  /\ arg' = arg /\ \A p \in Procs : pc[p] = "idle" => pc'[p] = "idle"
               /\ \A w \in Sweeps : pc'[w] = "unlink" => pc[w] = "unlink"
    BY <1>1, <1>2, <2>2 DEF LoadTurn, WriteTurn, Goto
  <2>3. ASSUME NEW r \in Reviews, LoadReviewed(r) \/ DiscardTurn(r)
        PROVE  /\ arg' = arg /\ \A p \in Procs : pc[p] = "idle" => pc'[p] = "idle"
               /\ \A w \in Sweeps : pc'[w] = "unlink" => pc[w] = "unlink"
    BY <1>1, <1>2, <2>3 DEF LoadReviewed, DiscardTurn, Goto
  <2>4. ASSUME NEW w \in Sweeps, Prune(w) \/ \E h \in Hooks : PruneUnder(w, h)
        PROVE  /\ arg' = arg /\ \A p \in Procs : pc[p] = "idle" => pc'[p] = "idle"
               /\ \A x \in Sweeps : pc'[x] = "unlink" => pc[x] = "unlink"
    BY <1>1, <1>2, <2>4 DEF Prune, PruneUnder, Goto
  <2> QED
    BY <1>8, <2>1, <2>2, <2>3, <2>4
<1>9. Result
  <2> HIDE DEF Result
  <2> QED
    BY <1>3, <1>4, <1>6, <1>7, <1>8, NextCases DEF Quiet
<1> QED
  BY <1>9

LEMMA TodoChange ==
  ASSUME Typed, [Next]_vars
  PROVE  todo' \in [Sweeps -> SUBSET Ids]
<1>1. todo \in [Sweeps -> SUBSET Ids]
  BY DEF Typed, Locals
<1>2. \A w \in Sweeps : StartSweep(w) \/ (\E t \in Ids : LookAt(w, t)) => todo' \in [Sweeps -> SUBSET Ids]
  BY <1>1 DEF StartSweep, LookAt
<1>3. ASSUME \/ UNCHANGED vars \/ \E t \in Ids : Expire(t)
             \/ \E h \in Hooks, k \in Kinds, s \in Signatures, t \in ids : StartHook(h, k, s, t)
             \/ \E r \in Reviews, t \in ids \cup {Fallback} : StartReview(r, t)
             \/ \E h \in Hooks : LoadTurn(h) \/ WriteTurn(h)
             \/ \E r \in Reviews : LoadReviewed(r) \/ DiscardTurn(r)
             \/ \E w \in Sweeps : Unlink(w) \/ Prune(w) \/ \E h \in Hooks : PruneUnder(w, h)
      PROVE  todo' = todo
  BY <1>3 DEF vars, Expire, StartHook, StartReview, LoadTurn, WriteTurn, LoadReviewed, DiscardTurn,
     Unlink, Prune, PruneUnder
<1> QED
  BY <1>1, <1>2, <1>3, NextCases DEF Quiet

\* A hook is due once it has something to write.
LEMMA DueChange ==
  ASSUME Typed, [Next]_vars, NEW h \in Hooks
  PROVE  /\ h \in due' => pc'[h] \in {"write", "done"}
         /\ pc'[h] = "write" => h \in due'
<1> USE Disjoint DEF Procs
<1>1. /\ pc \in [Procs -> {"idle", "load", "write", "discard", "walk", "unlink", "done"}]
      /\ h \in due => pc[h] \in {"write", "done"}
      /\ pc[h] = "write" => h \in due
  BY DEF Typed, Locals
<1>2. ASSUME NEW g \in Hooks, LoadTurn(g)
      PROVE  /\ h \in due' => pc'[h] \in {"write", "done"}
             /\ pc'[h] = "write" => h \in due'
  BY <1>1, <1>2 DEF LoadTurn, Goto
<1>3. ASSUME ~ \E g \in Hooks : LoadTurn(g)
      PROVE  due' = due
  BY <1>3, NextCases DEF Quiet, vars, history, StartHook, StartReview, StartSweep, LoadReviewed, Prune,
     LookAt, WriteTurn, DiscardTurn, Unlink, PruneUnder, Expire
<1>4. ASSUME ~ \E g \in Hooks : LoadTurn(g), pc'[h] # pc[h]
      PROVE  (pc[h] = "idle" /\ pc'[h] = "load") \/ (pc[h] = "write" /\ pc'[h] = "done")
  BY ZenonT(60), <1>1, <1>4, NextCases DEF Quiet, vars, StartHook, StartReview, StartSweep, LoadReviewed,
     Prune, LookAt, Goto, WriteTurn, DiscardTurn, Unlink, PruneUnder, Expire
<1> QED
  BY <1>1, <1>2, <1>3, <1>4

LEMMA LocalsNext ==
  ASSUME Typed, [Next]_vars
  PROVE  Locals'
<1>1. /\ pc \in [Procs -> {"idle", "load", "write", "discard", "walk", "unlink", "done"}]
      /\ held \in [Hooks \cup Reviews -> Record]
      /\ \A h \in Hooks : pc[h] \in {"idle", "load", "write", "done"}
      /\ \A r \in Reviews : pc[r] \in {"idle", "load", "discard", "done"}
      /\ \A w \in Sweeps : pc[w] \in {"idle", "walk", "unlink", "done"}
  BY DEF Typed, Locals
<1>2. /\ pc' \in [Procs -> {"idle", "load", "write", "discard", "walk", "unlink", "done"}]
      /\ \A h \in Hooks : pc'[h] \in {"idle", "load", "write", "done"}
      /\ \A r \in Reviews : pc'[r] \in {"idle", "load", "discard", "done"}
      /\ \A w \in Sweeps : pc'[w] \in {"idle", "walk", "unlink", "done"}
  BY <1>1, Moves, Disjoint DEF Procs
<1>3. \A p \in Hooks \cup Reviews : held'[p] \in Record
  BY <1>1, HeldByAll, LoadedRecord
<1>4. held' = [p \in Hooks \cup Reviews |-> held'[p]]
  <2>1. held' = held => held' = [p \in Hooks \cup Reviews |-> held'[p]]
    BY <1>1
  <2>2. \A h \in Hooks : LoadTurn(h) \/ WriteTurn(h) => held' = [p \in Hooks \cup Reviews |-> held'[p]]
    BY <1>1 DEF LoadTurn, WriteTurn
  <2>3. \A r \in Reviews : LoadReviewed(r) \/ DiscardTurn(r)
          => held' = [p \in Hooks \cup Reviews |-> held'[p]]
    BY <1>1 DEF LoadReviewed, DiscardTurn
  <2>4. \A w \in Sweeps, h \in Hooks : PruneUnder(w, h)
          => held' = [p \in Hooks \cup Reviews |-> held'[p]]
    BY <1>1 DEF PruneUnder
  <2>5. ASSUME \/ UNCHANGED vars \/ \E t \in Ids : Expire(t)
               \/ \E h \in Hooks, k \in Kinds, s \in Signatures, t \in ids : StartHook(h, k, s, t)
               \/ \E r \in Reviews, t \in ids \cup {Fallback} : StartReview(r, t)
               \/ \E w \in Sweeps : StartSweep(w) \/ Unlink(w) \/ Prune(w) \/ \E t \in Ids : LookAt(w, t)
        PROVE  held' = held
    BY <2>5 DEF vars, Expire, StartHook, StartReview, StartSweep, Unlink, Prune, LookAt
  <2> QED
    BY <2>1, <2>2, <2>3, <2>4, <2>5, NextCases DEF Quiet
<1>5. held' \in [Hooks \cup Reviews -> Record]
  BY <1>3, <1>4
<1> QED
  BY <1>2, <1>5, ArgChange, TodoChange, DueChange, Stable DEF Locals

LEMMA TypedNext ==
  ASSUME Typed, [Next]_vars
  PROVE  Typed'
BY SharedNext, LocalsNext, RecordingNext, BoundedNext DEF Typed

LEMMA InitTyped == Init => Typed
<1> SUFFICES ASSUME Init PROVE Typed
  OBVIOUS
<1> USE DEF Init
<1>1. Shared
  BY DEF Shared
<1>2. Locals
  BY MissingRecord DEF Locals, Procs, Args
<1>3. InPlay \subseteq {Missing}
  BY DEF InPlay
<1>4. Recording
  BY <1>3, MissingRecord, ConstantsAssumption DEF Recording
<1>5. \A b \in Births : b = 0
  BY DEF Births, Missing
<1>6. Bounded
  BY <1>5 DEF Bounded
<1> QED
  BY <1>1, <1>2, <1>4, <1>6 DEF Typed

LEMMA AlwaysTyped == Spec => []Typed
BY InitTyped, TypedNext, PTL DEF Spec

\* Every variable stays within its type; no turn file has more events than the
\* cap allows.
THEOREM TypesKept == Spec => []TypeOK
<1>1. ASSUME Typed
      PROVE  TypeOK
  <2>1. ASSUME NEW t \in Ids, files[t] # None
        PROVE  Len(files[t].events) \in 1 .. MaxEvents
    <3>1. files[t] \in Record /\ files[t] \in InPlay
      BY <1>1, <2>1 DEF Typed, Shared, InPlay
    <3>2. Len(files[t].events) \in Nat
      BY <3>1 DEF Record
    <3>3. Len(files[t].events) >= 1 /\ Len(files[t].events) <= MaxEvents
      BY <1>1, <2>1, <3>1 DEF Typed, Shared, Recording
    <3> QED
      BY <3>2, <3>3, ConstantsAssumption
  <2> QED
    BY <1>1, <2>1 DEF Typed, Shared, Locals, TypeOK
<1> QED
  BY <1>1, AlwaysTyped, PTL
-----------------------------------------------------------------------------
(* Prompts.                                                                *)

\* A record's text is the last prompt recorded in it, and that one was marked.
KeepsPrompt(r) == r.text # None =>
  r.text \in Hooks /\ Done(r.text) /\ r.text = r.markers /\ Kind(r.text) = "marked"

Prompts == \A r \in InPlay : KeepsPrompt(r)

LEMMA PromptsNext ==
  ASSUME Typed, Prompts, [Next]_vars
  PROVE  Prompts'
<1> SUFFICES ASSUME NEW r \in InPlay'
             PROVE  KeepsPrompt(r)'
  BY DEF Prompts
<1>1. ASSUME NEW q, KeepsPrompt(q)
      PROVE  KeepsPrompt(q)'
  BY <1>1, Stable DEF KeepsPrompt, Done, Kind
<1>2. CASE r \in InPlay
  BY <1>1, <1>2 DEF Prompts
<1>3. CASE r = Missing
  BY <1>3, MissingRecord DEF KeepsPrompt
<1>4. ASSUME NEW h \in Hooks, WriteTurn(h), r = Saved(h, held[h])
      PROVE  KeepsPrompt(r)'
  <2>1. /\ pc[h] = "write" /\ pc' = [pc EXCEPT ![h] = "done"] /\ due' = due /\ arg' = arg
        /\ h \in due /\ h \in Procs
    BY <1>4, AtWrite DEF WriteTurn, Goto, history
  <2>2. Done(h)'
    BY <2>1 DEF Done, Typed, Locals
  <2>3. r.text = TextAfter(h, held[h]) /\ r.markers = IF IsPrompt(h) THEN h ELSE held[h].markers
    BY <1>4 DEF Saved
  <2>4. CASE Kind(h) = "marked"
    BY <2>1, <2>2, <2>3, <2>4 DEF KeepsPrompt, TextAfter, IsPrompt, Kind
  <2>5. CASE Kind(h) = "prompt"
    BY <2>3, <2>5 DEF KeepsPrompt, TextAfter
  <2>6. CASE ~ IsPrompt(h)
    <3>1. r.text = held[h].text /\ r.markers = held[h].markers
      BY <2>3, <2>6 DEF TextAfter, IsPrompt
    <3>2. KeepsPrompt(held[h])
      BY <2>1, AtWrite DEF Prompts
    <3>3. KeepsPrompt(r)
      BY <3>1, <3>2 DEF KeepsPrompt
    <3> QED
      BY <1>1, <3>3
  <2> QED
    BY <2>4, <2>5, <2>6 DEF IsPrompt
<1>5. ASSUME NEW t \in Ids, files[t] \in InPlay, files[t] \in Record, r = Expired(files[t])
      PROVE  KeepsPrompt(r)'
  <2>1. KeepsPrompt(files[t]) /\ r.text = files[t].text /\ r.markers = files[t].markers
    BY <1>5, ExpiredRecord DEF Prompts
  <2>2. KeepsPrompt(r)
    BY <2>1 DEF KeepsPrompt
  <2> QED
    BY <1>1, <2>2
<1> QED
  BY <1>2, <1>3, <1>4, <1>5, InPlayChange

LEMMA InitPrompts == Init => Prompts
BY MissingRecord DEF Init, Prompts, InPlay, KeepsPrompt

LEMMA AlwaysPrompts == Spec => []Prompts
BY InitPrompts, AlwaysTyped, PromptsNext, PTL DEF Spec

-----------------------------------------------------------------------------
(* Pairing.                                                                *)

\* A record's events are those of different hooks; a success claims failures of
\* its own signature, earlier ones, each resolved by this claim and no other.
EachOnce(q) == \A i, j \in 1 .. Len(q) : i # j => q[i].hook # q[j].hook

ClaimsFit(q) ==
  \A i \in 1 .. Len(q) :
    /\ \A f \in q[i].claims : f \in Hooks /\ Done(f)
    /\ (Kind(q[i].hook) = "success") <=> (q[i].claims # {})
    /\ \A f \in q[i].claims : Kind(f) = "failure" /\ arg[f].sig = arg[q[i].hook].sig

ResolvedClaimed(q) ==
  \A i \in 1 .. Len(q) : q[i].resolved => \E j \in 1 .. Len(q) : q[i].hook \in q[j].claims

ClaimedEarlier(q) ==
  \A i, j \in 1 .. Len(q) : q[i].hook \in q[j].claims => i < j /\ q[i].resolved

ClaimedOnce(q) == \A i, j \in 1 .. Len(q) : i # j => q[i].claims \cap q[j].claims = {}

Exact(q) == EachOnce(q) /\ ClaimsFit(q) /\ ResolvedClaimed(q) /\ ClaimedEarlier(q) /\ ClaimedOnce(q)

\* A success only writes when what it loaded has a failure for it.
Ready == \A h \in Hooks : pc[h] = "write" /\ Kind(h) = "success" => Prior(h, held[h]) # {}

Paired == Ready /\ \A r \in InPlay : Exact(r.events)

\* The events of a record in play, by place.
LEMMA ByPlace ==
  ASSUME Typed, NEW r \in InPlay
  PROVE  /\ r.events \in Seq(Event) /\ Len(r.events) \in Nat
         /\ \A i \in 1 .. Len(r.events) :
              /\ r.events[i] \in Elems(r.events) /\ r.events[i].hook \in Recorded(r)
              /\ r.events[i].hook \in Hooks /\ Done(r.events[i].hook)
<1>1. r \in Record
  BY DEF InPlay, Typed, Shared, Locals
<1>2. r.events \in Seq(Event) /\ Len(r.events) \in Nat
  BY <1>1 DEF Record
<1>3. \A i \in 1 .. Len(r.events) : r.events[i] \in Elems(r.events) /\ r.events[i].hook \in Recorded(r)
  BY DEF Elems, Recorded
<1>4. \A g \in Recorded(r) : Done(g) /\ g \in Hooks
  BY DEF Typed, Recording, Shared, Done
<1> QED
  BY <1>2, <1>3, <1>4

LEMMA ExactStays ==
  ASSUME Typed, [Next]_vars, NEW r \in InPlay, Exact(r.events)
  PROVE  Exact(r.events)'
<1> DEFINE q == r.events
<1>1. /\ \A i \in 1 .. Len(q) : q[i].hook \in Hooks /\ Done(q[i].hook)
      /\ \A f \in Hooks : Done(f) => Done(f)' /\ arg'[f] = arg[f]
  BY ByPlace, Stable DEF Done
<1>2. ClaimsFit(q)'
  BY <1>1 DEF Exact, ClaimsFit, Kind
<1> QED
  BY <1>2 DEF Exact, EachOnce, ResolvedClaimed, ClaimedEarlier, ClaimedOnce

\* The failures a hook's success resolves, by place.
LEMMA PriorPlaces ==
  ASSUME NEW h \in Hooks, NEW r, r.events \in Seq(Event)
  PROVE  /\ \A e \in Prior(h, r) : \E i \in 1 .. Len(r.events) : e = r.events[i]
         /\ \A i \in 1 .. Len(r.events) :
              r.events[i] \in Prior(h, r) <=>
                /\ Kind(r.events[i].hook) = "failure"
                /\ arg[r.events[i].hook].sig = arg[h].sig
                /\ ~ r.events[i].resolved
BY DEF Prior, Elems

LEMMA ExactSaved ==
  ASSUME Typed, Paired, NEW h \in Hooks, WriteTurn(h), NEW w, w = Saved(h, held[h]).events
  PROVE  Exact(w)'
<1>1. /\ pc[h] = "write" /\ pc' = [pc EXCEPT ![h] = "done"] /\ due' = due /\ arg' = arg
      /\ held[h] \in InPlay /\ h \in due /\ h \in Procs /\ ~ Done(h)
  BY AtWrite DEF WriteTurn, Goto, history
<1>2. PICK r : r = held[h]
  OBVIOUS
<1>3. PICK q : q = r.events
  OBVIOUS
<1>4. /\ q \in Seq(Event) /\ Len(q) \in Nat /\ r.events \in Seq(Event)
      /\ \A i \in 1 .. Len(q) : q[i].hook \in Hooks /\ Done(q[i].hook)
  BY <1>1, <1>2, <1>3, ByPlace
<1>5. EachOnce(q) /\ ClaimsFit(q) /\ ResolvedClaimed(q) /\ ClaimedEarlier(q) /\ ClaimedOnce(q)
  BY <1>1, <1>2, <1>3 DEF Paired, Exact
<1>6. PICK k \in 0 .. Len(q) :
        /\ w \in Seq(Event) /\ Len(w) = Len(q) + 1 - k /\ Len(w) \in 1 .. MaxEvents
        /\ \A i \in 1 .. Len(q) - k :
             /\ w[i].hook = q[i + k].hook /\ w[i].claims = q[i + k].claims
             /\ w[i].resolved <=> Marked(h, q[i + k])
        /\ w[Len(w)] = NewEvent(h, r)
  BY <1>1, <1>2, <1>3, SavedEvents
<1> DEFINE n == Len(w)
           c == {e.hook : e \in Prior(h, r)}
<1>7. n \in Nat /\ n = Len(q) + 1 - k /\ n >= 1 /\ k \in Nat
  BY <1>4, <1>6
<1>8. /\ w[n].hook = h /\ w[n].resolved = FALSE
      /\ w[n].claims = IF Kind(h) = "success" THEN c ELSE {}
  BY <1>6 DEF NewEvent
<1>9. ASSUME NEW f \in c
      PROVE  \E m \in 1 .. Len(q) : /\ f = q[m].hook /\ q[m] \in Prior(h, r)
                                   /\ Kind(f) = "failure" /\ arg[f].sig = arg[h].sig /\ ~ q[m].resolved
  <2>1. PICK e \in Prior(h, r) : f = e.hook
    OBVIOUS
  <2> QED
    BY SMTT(60), <1>3, <1>4, <2>1, PriorPlaces
<1>10. \A f \in w[n].claims : f \in c /\ Kind(h) = "success"
  BY <1>8
<1> HIDE DEF n, c
<1>11. ASSUME NEW i \in 1 .. n, i # n
       PROVE  /\ i \in 1 .. n - 1 /\ i + k \in 1 .. Len(q)
              /\ w[i].hook = q[i + k].hook /\ w[i].claims = q[i + k].claims
              /\ w[i].resolved <=> Marked(h, q[i + k])
  <2>1. i \in 1 .. Len(q) - k /\ i \in 1 .. n - 1 /\ i + k \in 1 .. Len(q)
    BY <1>4, <1>7, <1>11
  <2> QED
    BY <1>6, <2>1
<1>12. \A f \in Hooks : Done(f) => Done(f)'
  BY <1>1, Disjoint DEF Done, Typed, Locals, Procs
<1>13. EachOnce(w)
  <2>1. \A i \in 1 .. n : i # n => w[i].hook # h
    BY <1>1, <1>4, <1>11
  <2>2. ASSUME NEW i \in 1 .. n, NEW j \in 1 .. n, i # j, i # n, j # n
        PROVE  w[i].hook # w[j].hook
    <3>1. i + k \in 1 .. Len(q) /\ j + k \in 1 .. Len(q)
      BY <1>11, <2>2
    <3>2. i + k # j + k
      BY <1>7, <2>2
    <3> QED
      BY <1>5, <1>11, <2>2, <3>1, <3>2 DEF EachOnce
  <2> QED
    BY SMTT(60), <1>8, <2>1, <2>2 DEF EachOnce, n
<1>14. ASSUME NEW i \in 1 .. n
       PROVE  /\ \A f \in w[i].claims : f \in Hooks /\ Done(f)
              /\ (Kind(w[i].hook) = "success") <=> (w[i].claims # {})
              /\ \A f \in w[i].claims : Kind(f) = "failure" /\ arg[f].sig = arg[w[i].hook].sig
  <2>1. CASE i # n
    BY <1>5, <1>11, <2>1 DEF ClaimsFit
  <2>2. CASE i = n
    <3>1. \A f \in w[i].claims : /\ f \in Hooks /\ Done(f)
                                 /\ Kind(f) = "failure" /\ arg[f].sig = arg[w[i].hook].sig
      BY <1>4, <1>8, <1>9, <1>10, <2>2
    <3>2. Kind(h) = "success" => Prior(h, r) # {}
      BY <1>1, <1>2 DEF Paired, Ready
    <3>3. (Kind(h) = "success") <=> (w[n].claims # {})
      BY <1>8, <3>2 DEF c
    <3> QED
      BY <1>8, <2>2, <3>1, <3>3
  <2> QED
    BY <2>1, <2>2
<1>15. ClaimsFit(w)'
  BY <1>1, <1>12, <1>14 DEF ClaimsFit, Kind, n
<1>16. ResolvedClaimed(w)
  <2> SUFFICES ASSUME NEW i \in 1 .. n, w[i].resolved
               PROVE  \E j \in 1 .. n : w[i].hook \in w[j].claims
    BY DEF ResolvedClaimed, n
  <2>1. /\ i # n /\ i + k \in 1 .. Len(q) /\ w[i].hook = q[i + k].hook
        /\ Marked(h, q[i + k])
    BY <1>8, <1>11
  <2>2. CASE q[i + k].resolved
    <3>1. PICK j \in 1 .. Len(q) : q[i + k].hook \in q[j].claims
      BY <1>5, <2>1, <2>2 DEF ResolvedClaimed
    <3>2. i + k < j
      BY <1>5, <2>1, <3>1 DEF ClaimedEarlier
    <3>3. PICK x \in 1 .. n : x # n /\ x + k = j
      <4>1. j - k \in 1 .. n /\ j - k # n /\ (j - k) + k = j
        BY <1>4, <1>7, <3>2
      <4> QED
        BY <4>1
    <3>4. w[x].claims = q[j].claims
      BY <1>11, <3>3
    <3> QED
      BY <2>1, <3>1, <3>4
  <2>3. CASE Kind(h) = "success" /\ q[i + k] \in Prior(h, r)
    <3>1. w[i].hook \in w[n].claims
      BY <1>8, <2>1, <2>3 DEF c
    <3> QED
      BY <1>7, <3>1
  <2> QED
    BY <1>2, <2>1, <2>2, <2>3 DEF Marked
<1>17. ASSUME NEW i \in 1 .. n, NEW j \in 1 .. n, w[i].hook \in w[j].claims
       PROVE  i < j /\ w[i].resolved
  <2>1. i # n
    <3>1. h \notin w[j].claims
      BY <1>1, <1>14
    <3> QED
      BY <1>8, <1>17, <3>1
  <2>2. CASE j # n
    <3>1. q[i + k].hook \in q[j + k].claims /\ i + k \in 1 .. Len(q) /\ j + k \in 1 .. Len(q)
      BY <1>11, <1>17, <2>1, <2>2
    <3>2. i + k < j + k /\ q[i + k].resolved
      BY <1>5, <3>1 DEF ClaimedEarlier
    <3> QED
      BY <1>7, <1>11, <2>1, <3>2 DEF Marked
  <2>3. CASE j = n
    <3>1. w[i].hook \in c /\ Kind(h) = "success"
      BY <1>10, <1>17, <2>3
    <3>2. PICK m \in 1 .. Len(q) : w[i].hook = q[m].hook /\ q[m] \in Prior(h, r)
      BY <1>9, <3>1
    <3>3. m = i + k
      BY <1>5, <1>11, <2>1, <3>2 DEF EachOnce
    <3> QED
      BY <1>2, <1>7, <1>11, <2>1, <2>3, <3>1, <3>2, <3>3 DEF Marked
  <2> QED
    BY <2>2, <2>3
<1>18. ASSUME NEW i \in 1 .. n - 1
       PROVE  w[i].claims \cap w[n].claims = {}
  <2> SUFFICES ASSUME NEW f \in w[i].claims, f \in w[n].claims PROVE FALSE
    OBVIOUS
  <2>1. i \in 1 .. n /\ i # n
    BY <1>7
  <2>2. i + k \in 1 .. Len(q) /\ f \in q[i + k].claims
    BY <1>11, <2>1
  <2>3. PICK m \in 1 .. Len(q) : f = q[m].hook /\ ~ q[m].resolved
    BY <1>9, <1>10
  <2> QED
    BY <1>5, <2>2, <2>3 DEF ClaimedEarlier
<1>19. ClaimedOnce(w)
  <2>1. ASSUME NEW i \in 1 .. n, NEW j \in 1 .. n, i # j, i # n, j # n
        PROVE  w[i].claims \cap w[j].claims = {}
    <3>1. i + k \in 1 .. Len(q) /\ j + k \in 1 .. Len(q) /\ i + k # j + k
      BY <1>7, <1>11, <2>1
    <3> QED
      BY <1>5, <1>11, <2>1, <3>1 DEF ClaimedOnce
  <2>2. \A i \in 1 .. n : i # n => i \in 1 .. n - 1
    BY <1>7
  <2>3. \A i \in 1 .. n : i # n => w[i].claims \cap w[n].claims = {} /\ w[n].claims \cap w[i].claims = {}
    BY <1>18, <2>2
  <2> QED
    BY <2>1, <2>3 DEF ClaimedOnce, n
<1> QED
  BY <1>13, <1>15, <1>16, <1>17, <1>19 DEF Exact, EachOnce, ResolvedClaimed, ClaimedEarlier,
     ClaimedOnce, n

\* A hook about to write has loaded just now, or holds what it held.
LEMMA WriteChange ==
  ASSUME Typed, [Next]_vars, NEW h \in Hooks, pc'[h] = "write"
  PROVE  LoadTurn(h) \/ (pc[h] = "write" /\ held'[h] = held[h])
<1> USE Disjoint DEF Procs
<1>1. /\ pc \in [Procs -> {"idle", "load", "write", "discard", "walk", "unlink", "done"}]
      /\ held \in [Hooks \cup Reviews -> Record]
  BY DEF Typed, Locals
<1>2. ASSUME NEW g \in Hooks, LoadTurn(g) \/ WriteTurn(g)
      PROVE  LoadTurn(h) \/ (pc[h] = "write" /\ held'[h] = held[h])
  BY <1>1, <1>2 DEF LoadTurn, WriteTurn, Goto
<1>3. CASE Quiet
  BY <1>1, <1>3, QuietChange DEF Quiet, vars, StartHook, StartReview, StartSweep, LoadReviewed, Prune,
     LookAt, Goto
<1>4. ASSUME \/ \E r \in Reviews : DiscardTurn(r)
             \/ \E w \in Sweeps : Unlink(w) \/ \E g \in Hooks : PruneUnder(w, g)
             \/ \E t \in Ids : Expire(t)
      PROVE  pc[h] = "write" /\ held'[h] = held[h]
  BY <1>1, <1>4 DEF DiscardTurn, Unlink, PruneUnder, Expire, Goto
<1> QED
  BY <1>2, <1>3, <1>4, NextCases

LEMMA ReadyNext ==
  ASSUME Typed, Ready, [Next]_vars
  PROVE  Ready'
<1> SUFFICES ASSUME NEW h \in Hooks, pc'[h] = "write", Kind(h)' = "success"
             PROVE  Prior(h, held[h])' # {}
  BY DEF Ready
<1>1. CASE LoadTurn(h)
  <2>1. /\ arg' = arg /\ held'[h] = Loaded(arg[h].id)
        /\ Kind(h) # "success" \/ Prior(h, Loaded(arg[h].id)) # {}
    BY <1>1, Disjoint DEF LoadTurn, Goto, Typed, Locals, Procs
  <2>2. PICK r : r = Loaded(arg[h].id)
    OBVIOUS
  <2>3. Prior(h, r)' = Prior(h, r)
    BY <2>1 DEF Prior, Kind
  <2> QED
    BY <2>1, <2>2, <2>3 DEF Kind, Prior
<1>2. CASE pc[h] = "write" /\ held'[h] = held[h]
  <2>1. held[h] \in InPlay /\ arg'[h] = arg[h] /\ Kind(h) = "success"
    BY <1>2, AtWrite, Stable DEF Kind
  <2>2. PICK e : e \in Prior(h, held[h])
    BY <1>2, <2>1 DEF Ready
  <2>3. e.hook \in Recorded(held[h])
    BY <2>2 DEF Prior, Recorded
  <2>4. Done(e.hook) /\ e.hook \in Hooks
    BY <2>1, <2>3 DEF Typed, Recording, Shared, Done
  <2>5. arg'[e.hook] = arg[e.hook]
    BY <2>4, Stable DEF Done
  <2>6. e \in Prior(h, held[h])'
    BY <1>2, <2>1, <2>2, <2>5 DEF Prior, Kind
  <2> QED
    BY <2>6
<1> QED
  BY <1>1, <1>2, WriteChange

LEMMA PairedNext ==
  ASSUME Typed, Paired, [Next]_vars
  PROVE  Paired'
<1>1. ASSUME NEW r \in InPlay'
      PROVE  Exact(r.events)'
  <2>1. CASE r \in InPlay
    BY <2>1, ExactStays DEF Paired
  <2>2. CASE r = Missing
    <3>1. Len(r.events) = 0
      BY <2>2, MissingRecord
    <3> QED
      BY <3>1 DEF Exact, EachOnce, ClaimsFit, ResolvedClaimed, ClaimedEarlier, ClaimedOnce
  <2>3. ASSUME NEW h \in Hooks, WriteTurn(h), r = Saved(h, held[h])
        PROVE  Exact(r.events)'
    <3>1. PICK w : w = r.events
      OBVIOUS
    <3>2. Exact(w)'
      BY <2>3, <3>1, ExactSaved
    <3> QED
      BY <3>1, <3>2
  <2>4. ASSUME NEW t \in Ids, files[t] \in InPlay, files[t] \in Record, r = Expired(files[t])
        PROVE  Exact(r.events)'
    <3>1. PICK f \in InPlay : f = files[t] /\ r.events = f.events
      BY <2>4, ExpiredRecord
    <3>2. Exact(f.events)'
      BY <3>1, ExactStays DEF Paired
    <3> QED
      BY <3>1, <3>2
  <2> QED
    BY <2>1, <2>2, <2>3, <2>4, InPlayChange
<1> QED
  BY <1>1, ReadyNext DEF Paired

LEMMA AlwaysPaired == Spec => [](Typed /\ Paired)
<1>1. Init => Paired
  <2> SUFFICES ASSUME Init PROVE Paired
    OBVIOUS
  <2>1. Ready
    BY Disjoint DEF Init, Ready, Procs
  <2>2. \A r \in InPlay : r = Missing
    BY DEF Init, InPlay
  <2>3. \A r \in InPlay : Len(r.events) = 0
    BY <2>2, MissingRecord
  <2> QED
    BY <2>1, <2>3 DEF Paired, Exact, EachOnce, ClaimsFit, ResolvedClaimed, ClaimedEarlier, ClaimedOnce
<1> QED
  BY <1>1, InitTyped, TypedNext, PairedNext, PTL DEF Spec

\* A transition the reviewer is told of is verified, whatever overlapped and
\* whatever the cap dropped: a success claims failures of its own signature, no
\* failure is claimed twice, and it is marked resolved exactly when a success of
\* the same record claims it (record_tool_success, _append).
THEOREM TransitionsVerified == Spec => []PairingExact
<1>1. ASSUME Typed, Paired, NEW t \in Ids, files[t] # None
      PROVE  LET E == Elems(files[t].events) IN
               /\ \A e \in E : Kind(e.hook) = "success" =>
                    /\ e.claims # {}
                    /\ \A f \in e.claims : Kind(f) = "failure" /\ arg[f].sig = arg[e.hook].sig
               /\ \A d, e \in E : d # e => d.claims \cap e.claims = {}
               /\ \A e \in E : e.resolved <=> \E s \in E : e.hook \in s.claims
  <2> DEFINE q == files[t].events
  <2>1. q \in Seq(Event) /\ Exact(q)
    BY <1>1, ByPlace DEF InPlay, Paired
  <2> HIDE DEF q
  <2>2. /\ \A i \in 1 .. Len(q) : q[i] \in Elems(q)
        /\ \A e \in Elems(q) : \E i \in 1 .. Len(q) : e = q[i]
    BY <2>1, Places
  <2>3. \A e \in Elems(q) : Kind(e.hook) = "success" =>
          /\ e.claims # {}
          /\ \A f \in e.claims : Kind(f) = "failure" /\ arg[f].sig = arg[e.hook].sig
    BY <2>1, <2>2 DEF Exact, ClaimsFit
  <2>4. \A d, e \in Elems(q) : d # e => d.claims \cap e.claims = {}
    BY <2>1, <2>2 DEF Exact, ClaimedOnce
  <2>5. \A e \in Elems(q) : e.resolved => \E s \in Elems(q) : e.hook \in s.claims
    BY <2>1, <2>2 DEF Exact, ResolvedClaimed
  <2>6. \A e, s \in Elems(q) : e.hook \in s.claims => e.resolved
    BY <2>1, <2>2 DEF Exact, ClaimedEarlier
  <2> QED
    BY <2>3, <2>4, <2>5, <2>6 DEF q
<1>2. Typed /\ Paired => PairingExact
  BY <1>1 DEF PairingExact
<1> QED
  BY <1>2, AlwaysPaired, PTL

-----------------------------------------------------------------------------
(* Whose turn a record is of.                                              *)

\* The events that are safe without a file, or excused.
Gone == evicted \cup expired \cup reviewed \cup overtaken

InFile(u) == IF files[u] = None THEN {} ELSE Recorded(files[u])

\* All that is in a record comes from one turn.
OfTurn(r, u) ==
  /\ r.id \in {None, u}
  /\ \A h \in Recorded(r) : arg[h].id = u
  /\ r.text # None => r.id = u /\ arg[r.text].id = u

\* The events that a process about to change a file need not find in it again.
Known(p) == IF p \in Hooks THEN Recorded(held[p]) \cup Gone ELSE Gone

OwnFiles == \A u \in Ids : files[u] # None => u \in ids /\ OfTurn(files[u], u)

OwnHeld ==
  /\ \A h \in Hooks : pc[h] = "write" => OfTurn(held[h], arg[h].id)
  /\ \A r \in Reviews :
       /\ pc[r] = "discard" => held[r].id = None \/ arg[r].id = Fallback \/ held[r].id = arg[r].id
       /\ held[r].text # None =>
            held[r].id \in Ids /\ Done(held[r].text) /\ arg[held[r].text].id = held[r].id

Owned == OwnFiles /\ OwnHeld

LEMMA HistoryGrows ==
  ASSUME [Next]_vars
  PROVE  /\ overtaken \subseteq overtaken' /\ evicted \subseteq evicted' /\ expired \subseteq expired'
         /\ reviewed \subseteq reviewed' /\ Gone \subseteq Gone'
<1>1. /\ overtaken \subseteq overtaken' /\ evicted \subseteq evicted' /\ expired \subseteq expired'
      /\ reviewed \subseteq reviewed'
  BY NextCases DEF Quiet, vars, history, StartHook, StartReview, StartSweep, LoadReviewed, LoadTurn, Prune,
     LookAt, WriteTurn, DiscardTurn, Unlink, PruneUnder, Expire, Overtake
<1> QED
  BY <1>1 DEF Gone

\* What a record of one turn is stays so.
LEMMA OfTurnStays ==
  ASSUME Typed, [Next]_vars, NEW r, NEW u, OfTurn(r, u),
         \A h \in Recorded(r) : h \in Hooks /\ Done(h),
         r.text # None => r.text \in Hooks /\ Done(r.text)
  PROVE  OfTurn(r, u)'
BY Stable DEF OfTurn, Done

\* What records in play hold, their hooks being over.
LEMMA InPlayDone ==
  ASSUME Typed, Prompts, NEW r \in InPlay
  PROVE  /\ \A h \in Recorded(r) : h \in Hooks /\ Done(h)
         /\ r.text # None => r.text \in Hooks /\ Done(r.text)
BY DEF Typed, Recording, Prompts, KeepsPrompt, Done, Shared

\* A hook loads the file of its own turn, or nothing.
LEMMA OwnLoaded ==
  ASSUME Typed, OwnFiles, NEW h \in Hooks, pc[h] = "load"
  PROVE  LET t == arg[h].id IN
           /\ t \in ids /\ t \in Ids
           /\ \/ Live(t) /\ Loaded(t) = files[t]
              \/ ~ Live(t) /\ Loaded(t) = Missing
<1>1. arg[h].id \in ids /\ arg[h].id \in Ids /\ ids \in {Turns, {Fallback}}
  BY DEF Typed, Locals, Shared, Ids
<1>2. ASSUME arg[h].id = Fallback
      PROVE  ids = {Fallback}
  BY <1>1, <1>2, ConstantsAssumption
<1>3. ASSUME arg[h].id = Fallback, NEW u \in Ids, Live(u)
      PROVE  u = arg[h].id
  BY <1>2, <1>3 DEF OwnFiles, Live
<1> QED
  BY <1>1, <1>3, LoadedCases DEF Typed

LEMMA MissingOfTurn == \A u : OfTurn(Missing, u)
BY MissingRecord DEF OfTurn

LEMMA SavedOfTurn ==
  ASSUME Typed, OwnHeld, NEW h \in Hooks, WriteTurn(h),
         NEW r, r = Saved(h, held[h]), NEW u, u = arg[h].id
  PROVE  OfTurn(r, u)' /\ u \in ids /\ r # None
<1>1. pc[h] = "write" /\ arg' = arg
  BY DEF WriteTurn, Goto
<1>2. u \in ids /\ r # None
  BY <1>1, AtWrite, SavedRecord, NoneIsNoRecord
<1>3. OfTurn(held[h], u)
  BY <1>1 DEF OwnHeld
<1>4. /\ r.id = (IF IsPrompt(h) THEN u ELSE held[h].id) /\ r.text = TextAfter(h, held[h])
      /\ Recorded(r) \subseteq Recorded(held[h]) \cup {h}
  <2>1. Recorded(r) \subseteq Recorded(held[h]) \cup {h}
    BY <1>1, SavedRecord
  <2> QED
    BY <2>1 DEF Saved
<1>5. OfTurn(r, u)
  BY <1>3, <1>4 DEF OfTurn, TextAfter, IsPrompt, Kind
<1> QED
  BY <1>1, <1>2, <1>5 DEF OfTurn

LEMMA OwnFilesNext ==
  ASSUME Typed, Prompts, Owned, [Next]_vars
  PROVE  OwnFiles'
<1> SUFFICES ASSUME NEW u \in Ids, files'[u] # None
             PROVE  u \in ids /\ OfTurn(files[u], u)'
  BY Stable DEF OwnFiles
<1>1. PICK r : r = files'[u]
  OBVIOUS
<1>2. ASSUME files[u] # None
      PROVE  u \in ids /\ OfTurn(files[u], u) /\ files[u] \in InPlay /\ files[u] \in Record
  BY <1>2 DEF Owned, OwnFiles, InPlay, Typed, Shared
<1>3. CASE r = files[u]
  <2>1. OfTurn(r, u)'
    BY <1>1, <1>2, <1>3, InPlayDone, OfTurnStays
  <2> QED
    BY <1>1, <1>2, <1>3, <2>1 DEF OfTurn
<1>4. ASSUME NEW h \in Hooks, WriteTurn(h), u = arg[h].id, r = Saved(h, held[h])
      PROVE  u \in ids /\ OfTurn(r, u)'
  BY <1>4, SavedOfTurn DEF Owned
<1>5. ASSUME Expire(u), r = Expired(files[u])
      PROVE  u \in ids /\ OfTurn(r, u)'
  <2>1. files[u] # None
    BY <1>5 DEF Expire, Live
  <2>2. Recorded(r) = Recorded(files[u]) /\ r.text = files[u].text /\ r.id = files[u].id
    BY <1>2, <1>5, <2>1, ExpiredRecord DEF Recorded
  <2>3. OfTurn(r, u)
    BY <1>2, <2>1, <2>2 DEF OfTurn
  <2>4. OfTurn(r, u)'
    BY <1>2, <2>1, <2>2, <2>3, InPlayDone, OfTurnStays
  <2> QED
    BY <1>2, <2>1, <2>4
<1>6. u \in ids /\ OfTurn(r, u)'
  BY <1>1, <1>3, <1>4, <1>5, FilesChange DEF OfTurn
<1> QED
  BY <1>1, <1>6 DEF OfTurn

\* What a review holds after a step: what it did, what it just loaded, or what
\* the discard leaves it.
LEMMA ReviewChange ==
  ASSUME Typed, [Next]_vars, NEW r \in Reviews
  PROVE  \/ LoadReviewed(r) /\ held'[r] = Loaded(arg[r].id) /\ pc'[r] = "discard"
         \/ /\ DiscardTurn(r) /\ pc'[r] = "done"
            /\ held'[r] = [Missing EXCEPT !.id = held[r].id, !.text = held[r].text]
         \/ held'[r] = held[r] /\ (pc'[r] \in {"discard", "done"} => pc'[r] = pc[r])
<1> USE Disjoint DEF Procs
<1>1. /\ pc \in [Procs -> {"idle", "load", "write", "discard", "walk", "unlink", "done"}]
      /\ held \in [Hooks \cup Reviews -> Record]
      /\ r \in Procs
  BY DEF Typed, Locals
<1>2. ASSUME NEW q \in Reviews, LoadReviewed(q) \/ DiscardTurn(q)
      PROVE  \/ LoadReviewed(r) /\ held'[r] = Loaded(arg[r].id) /\ pc'[r] = "discard"
             \/ /\ DiscardTurn(r) /\ pc'[r] = "done"
                /\ held'[r] = [Missing EXCEPT !.id = held[r].id, !.text = held[r].text]
             \/ held'[r] = held[r] /\ pc'[r] = pc[r]
  BY <1>1, <1>2 DEF LoadReviewed, DiscardTurn, Goto
<1>3. ASSUME NEW h \in Hooks, LoadTurn(h) \/ WriteTurn(h)
      PROVE  held'[r] = held[r] /\ pc'[r] = pc[r]
  BY <1>1, <1>3 DEF LoadTurn, WriteTurn, Goto
<1>4. ASSUME NEW w \in Sweeps, NEW h \in Hooks, PruneUnder(w, h)
      PROVE  held'[r] = held[r] /\ pc'[r] = pc[r]
  BY <1>1, <1>4 DEF PruneUnder
<1>5. ASSUME \/ UNCHANGED vars
             \/ \E h \in Hooks, k \in Kinds, s \in Signatures, t \in ids : StartHook(h, k, s, t)
             \/ \E w \in Sweeps : StartSweep(w) \/ Prune(w) \/ Unlink(w) \/ \E t \in Ids : LookAt(w, t)
             \/ \E t \in Ids : Expire(t)
      PROVE  held'[r] = held[r] /\ pc'[r] = pc[r]
  BY <1>1, <1>5 DEF vars, StartHook, StartSweep, Prune, Unlink, LookAt, Expire, Goto
<1>6. ASSUME NEW q \in Reviews, NEW t \in ids \cup {Fallback}, StartReview(q, t)
      PROVE  held'[r] = held[r] /\ (pc'[r] \in {"discard", "done"} => pc'[r] = pc[r])
  BY <1>1, <1>6 DEF StartReview, Goto
<1> QED
  BY <1>2, <1>3, <1>4, <1>5, <1>6, NextCases DEF Quiet

\* A review loads the file of the turn its record is of.
LEMMA ReviewLoaded ==
  ASSUME Typed, OwnFiles, NEW t \in Ids
  PROVE  \/ \E u \in Ids : /\ Live(u) /\ Loaded(t) = files[u] /\ OfTurn(files[u], u)
                           /\ u = t \/ (t = Fallback /\ ~ Live(t))
         \/ ~ Live(t) /\ Loaded(t) = Missing
<1>1. \A u \in Ids : Live(u) => OfTurn(files[u], u)
  BY DEF OwnFiles, Live
<1> QED
  BY <1>1, LoadedCases DEF Typed

LEMMA OwnHeldNext ==
  ASSUME Typed, Prompts, Owned, [Next]_vars
  PROVE  OwnHeld'
<1>1. ASSUME NEW h \in Hooks, pc'[h] = "write"
      PROVE  OfTurn(held[h], arg[h].id)'
  <2>1. PICK r : r = held'[h]
    OBVIOUS
  <2>2. PICK u : u = arg[h].id
    OBVIOUS
  <2>3. CASE LoadTurn(h)
    <3>1. pc[h] = "load" /\ held'[h] = Loaded(u) /\ arg' = arg
      BY <2>2, <2>3, Disjoint DEF LoadTurn, Goto, Typed, Locals
    <3>2. u \in Ids /\ ((Live(u) /\ r = files[u]) \/ r = Missing)
      BY <2>1, <2>2, <3>1, OwnLoaded DEF Owned
    <3>3. OfTurn(r, u)
      BY <3>2, MissingOfTurn DEF Owned, OwnFiles, Live
    <3>4. OfTurn(r, u)'
      BY <3>1, <3>3 DEF OfTurn
    <3> QED
      BY <2>1, <2>2, <3>1, <3>4 DEF OfTurn
  <2>4. CASE pc[h] = "write" /\ held'[h] = held[h]
    <3>1. r = held[h] /\ r \in InPlay /\ OfTurn(r, u) /\ arg'[h] = arg[h]
      BY <2>1, <2>2, <2>4, Stable DEF InPlay, Owned, OwnHeld
    <3>2. OfTurn(r, u)'
      BY <3>1, InPlayDone, OfTurnStays
    <3> QED
      BY <2>1, <2>2, <3>1, <3>2 DEF OfTurn
  <2> QED
    BY <1>1, <2>3, <2>4, WriteChange
<1>2. ASSUME NEW r \in Reviews
      PROVE  /\ pc'[r] = "discard"
                  => held'[r].id = None \/ arg'[r].id = Fallback \/ held'[r].id = arg'[r].id
             /\ held'[r].text # None => /\ held'[r].id \in Ids /\ Done(held[r].text)'
                                       /\ arg'[held'[r].text].id = held'[r].id
  <2> DEFINE Result(q) ==
        /\ pc'[r] = "discard" => q.id = None \/ arg'[r].id = Fallback \/ q.id = arg'[r].id
        /\ q.text # None => q.id \in Ids /\ Done(q.text)' /\ arg'[q.text].id = q.id
  <2>1. PICK q : q = held'[r]
    OBVIOUS
  <2>2. held[r] \in Record
    BY DEF Typed, Locals
  <2>3. ASSUME NEW x, x = held[r].text, x # None
        PROVE  held[r].id \in Ids /\ Done(x)' /\ arg'[x].id = held[r].id
    <3>1. x \in Hooks /\ Done(x)
      BY <2>2, <2>3 DEF Record, Owned, OwnHeld
    <3>2. Done(x)' /\ arg'[x] = arg[x]
      BY <3>1, Stable DEF Done
    <3> QED
      BY <2>3, <3>2 DEF Owned, OwnHeld
  <2>4. CASE LoadReviewed(r) /\ held'[r] = Loaded(arg[r].id)
    <3>1. arg' = arg /\ arg[r].id \in Ids
      BY <2>4 DEF LoadReviewed, Goto, Typed, Locals, Shared, Ids
    <3>2. q = Missing => Result(q)
      BY MissingRecord
    <3>3. ASSUME NEW u \in Ids, Live(u), q = files[u], OfTurn(files[u], u),
                 u = arg[r].id \/ arg[r].id = Fallback
          PROVE  Result(q)
      <4>1. q \in InPlay
        BY <3>3 DEF InPlay, Live
      <4>2. q.text # None => q.text \in Hooks /\ Done(q.text)
        BY <4>1, InPlayDone
      <4> QED
        BY <3>1, <3>3, <4>2, Stable DEF OfTurn
    <3> HIDE DEF Result
    <3>4. Result(q)
      BY <2>1, <2>4, <3>1, <3>2, <3>3, ReviewLoaded DEF Owned
    <3> QED
      BY <2>1, <3>4 DEF Result, Done
  <2>5. CASE DiscardTurn(r) /\ pc'[r] = "done"
             /\ held'[r] = [Missing EXCEPT !.id = held[r].id, !.text = held[r].text]
    <3>1. q.id = held[r].id /\ q.text = held[r].text
      BY <2>1, <2>5 DEF Missing
    <3>2. Result(q)
      BY <2>3, <2>5, <3>1
    <3> QED
      BY <2>1, <3>2 DEF Done
  <2>6. CASE held'[r] = held[r] /\ (pc'[r] \in {"discard", "done"} => pc'[r] = pc[r])
    <3>1. pc'[r] = "discard" => pc[r] = "discard" /\ arg'[r] = arg[r]
      BY <2>6, Stable
    <3>2. Result(q)
      BY <2>1, <2>3, <2>6, <3>1 DEF Owned, OwnHeld
    <3> QED
      BY <2>1, <3>2 DEF Done
  <2> QED
    BY <2>4, <2>5, <2>6, ReviewChange
<1> QED
  BY <1>1, <1>2 DEF OwnHeld

LEMMA OwnedNext ==
  ASSUME Typed, Prompts, Owned, [Next]_vars
  PROVE  Owned'
BY OwnFilesNext, OwnHeldNext DEF Owned

LEMMA AlwaysOwned == Spec => [](Typed /\ Prompts /\ Owned)
<1>1. Init => Owned
  BY MissingRecord, Disjoint DEF Init, Owned, OwnFiles, OwnHeld, Procs
<1> QED
  BY <1>1, InitPrompts, InitTyped, TypedNext, PromptsNext, OwnedNext, PTL DEF Spec

-----------------------------------------------------------------------------
(* What happens to a file.                                                 *)

LEMMA Reached ==
  ASSUME Typed, Owned, NEW p \in Procs, Acting(p)
  PROVE  Target(p) \in Ids
<1>1. CASE p \in Hooks
  <2>1. Target(p) = arg[p].id /\ pc[p] = "write"
    BY <1>1, Disjoint DEF Target, Acting, Typed, Locals
  <2> QED
    BY <1>1, <2>1, AtWrite
<1>2. CASE p \in Reviews
  <2>1. pc[p] = "discard" /\ arg[p].id \in Ids
    BY <1>2 DEF Acting, Typed, Locals, Shared, Ids
  <2>2. held[p] \in Record /\ Target(p) = IF held[p].id # None THEN held[p].id ELSE arg[p].id
    BY <1>2 DEF Typed, Locals, Target, DiscardedTurn
  <2> QED
    BY <2>1, <2>2 DEF Record
<1>3. CASE p \in Sweeps
  BY <1>3, Disjoint DEF Acting, Target, Typed, Locals
<1> QED
  BY <1>1, <1>2, <1>3 DEF Procs

\* A step leaves a file as it is, removes it, writes it, or lets it expire.
LEMMA FileChange ==
  ASSUME Typed, Owned, [Next]_vars, NEW u \in Ids
  PROVE  \/ files'[u] = files[u]
         \/ /\ files'[u] = None
            /\ \E p \in Procs \ Hooks : Acting(p) /\ Target(p) = u
         \/ \E h \in Hooks : /\ WriteTurn(h) /\ u = arg[h].id /\ files'[u] = Saved(h, held[h])
                            /\ Acting(h) /\ Target(h) = u /\ files'[u] # None
         \/ /\ Expire(u) /\ files'[u] = Expired(files[u]) /\ files'[u] # None
            /\ files[u] # None /\ files[u] \in Record
<1> USE Disjoint DEF Typed, Shared
<1>1. CASE Quiet
  BY <1>1, QuietChange
<1>2. ASSUME NEW h \in Hooks, LoadTurn(h)
      PROVE  files' = files
  BY <1>2 DEF LoadTurn
<1>3. ASSUME NEW h \in Hooks, WriteTurn(h)
      PROVE  \/ files'[u] = files[u]
             \/ /\ u = arg[h].id /\ files'[u] = Saved(h, held[h])
                /\ Acting(h) /\ Target(h) = u /\ files'[u] # None
  <2>1. Acting(h) /\ Target(h) = arg[h].id
    BY <1>3 DEF WriteTurn, Goto, Acting, Target
  <2>2. Saved(h, held[h]) # None
    BY <1>3, SavedRecord, NoneIsNoRecord DEF WriteTurn, Goto
  <2> QED
    BY <1>3, <2>1, <2>2 DEF WriteTurn
<1>4. ASSUME NEW r \in Reviews, DiscardTurn(r)
      PROVE  \/ files'[u] = files[u]
             \/ files'[u] = None /\ r \in Procs \ Hooks /\ Acting(r) /\ Target(r) = u
  BY <1>4 DEF DiscardTurn, Goto, Acting, Target, Procs
<1>5. ASSUME NEW w \in Sweeps, Unlink(w)
      PROVE  \/ files'[u] = files[u]
             \/ files'[u] = None /\ w \in Procs \ Hooks /\ Acting(w) /\ Target(w) = u
  BY <1>5 DEF Unlink, Goto, Acting, Target, Procs
<1>6. ASSUME NEW w \in Sweeps, NEW h \in Hooks, PruneUnder(w, h)
      PROVE  files'[u] = files[u]
  BY <1>6 DEF PruneUnder
<1>7. ASSUME NEW t \in Ids, Expire(t)
      PROVE  \/ files'[u] = files[u]
             \/ /\ Expire(u) /\ files'[u] = Expired(files[u]) /\ files'[u] # None
                /\ files[u] # None /\ files[u] \in Record
  <2>1. CASE t = u
    <3>1. files[u] # None /\ files[u] \in Record /\ files'[u] = Expired(files[u]) /\ Expire(u)
      BY <1>7, <2>1 DEF Expire, Live, Expired
    <3> QED
      BY <3>1, ExpiredRecord, NoneIsNoRecord
  <2>2. CASE t # u
    BY <1>7, <2>2 DEF Expire
  <2> QED
    BY <2>1, <2>2
<1> QED
  BY <1>1, <1>2, <1>3, <1>4, <1>5, <1>6, <1>7, NextCases

-----------------------------------------------------------------------------
(* A kept text is the last prompt's.                                       *)

LastIn(r, u) == r.text # None => r.text = last[u] \/ last[u] \in overtaken

LastKept ==
  /\ \A u \in Ids : files[u] # None => LastIn(files[u], u)
  /\ \A h \in Hooks : pc[h] = "write" => LastIn(held[h], arg[h].id)

\* Only the write of a prompt changes what the last prompt is.
LEMMA LastChange ==
  ASSUME Typed, [Next]_vars
  PROVE  \/ last' = last
         \/ \E h \in Hooks : WriteTurn(h) /\ IsPrompt(h) /\ last' = [last EXCEPT ![arg[h].id] = h]
<1>1. ASSUME NEW h \in Hooks, WriteTurn(h)
      PROVE  \/ last' = last
             \/ WriteTurn(h) /\ IsPrompt(h) /\ last' = [last EXCEPT ![arg[h].id] = h]
  BY <1>1 DEF WriteTurn
<1>2. ASSUME ~ \E h \in Hooks : WriteTurn(h)
      PROVE  last' = last
  BY <1>2, NextCases DEF Quiet, vars, history, StartHook, StartReview, StartSweep, LoadReviewed, LoadTurn,
     Prune, LookAt, DiscardTurn, Unlink, PruneUnder, Expire
<1> QED
  BY <1>1, <1>2

\* What a hook holds stays true of the last prompt, unless that was overtaken.
LEMMA LastInStays ==
  ASSUME Typed, [Next]_vars, NEW r, NEW u \in Ids, LastIn(r, u),
         \A h \in Hooks : WriteTurn(h) /\ IsPrompt(h) /\ arg[h].id = u => h \in overtaken'
  PROVE  LastIn(r, u)'
<1>1. last \in [Ids -> Hooks \cup {None}] /\ overtaken \subseteq overtaken'
  BY HistoryGrows DEF Typed, Shared
<1>2. CASE last'[u] = last[u]
  BY <1>1, <1>2 DEF LastIn
<1>3. ASSUME NEW h \in Hooks, WriteTurn(h), IsPrompt(h), last' = [last EXCEPT ![arg[h].id] = h],
             last'[u] # last[u]
      PROVE  LastIn(r, u)'
  <2>1. arg[h].id = u /\ last'[u] = h
    BY <1>1, <1>3
  <2> QED
    BY <1>3, <2>1 DEF LastIn
<1> QED
  BY <1>2, <1>3, LastChange

LEMMA LastKeptNext ==
  ASSUME Typed, Owned, LastKept, [Next]_vars
  PROVE  LastKept'
<1> USE Disjoint
<1>1. last \in [Ids -> Hooks \cup {None}]
  BY DEF Typed, Shared
<1>2. ASSUME NEW u \in Ids, files'[u] # None
      PROVE  LastIn(files[u], u)'
  <2>1. PICK r : r = files'[u]
    OBVIOUS
  <2>2. SUFFICES LastIn(r, u)'
    BY <2>1 DEF LastIn
  <2>3. ASSUME NEW h \in Hooks, WriteTurn(h), u = arg[h].id, r = Saved(h, held[h])
        PROVE  LastIn(r, u)'
    <3>1. pc[h] = "write" /\ LastIn(held[h], u) /\ r.text = TextAfter(h, held[h])
      BY <2>3 DEF WriteTurn, Goto, LastKept, Saved
    <3>2. overtaken \subseteq overtaken'
      BY HistoryGrows
    <3>3. CASE IsPrompt(h)
      <4>1. last'[u] = h
        BY <1>1, <2>3, <3>3 DEF WriteTurn
      <4>2. r.text \in {None, h}
        BY <3>1, <3>3 DEF TextAfter, IsPrompt
      <4> QED
        BY <4>1, <4>2 DEF LastIn
    <3>4. CASE ~ IsPrompt(h)
      <4>1. last' = last /\ r.text = held[h].text
        BY <2>3, <3>1, <3>4 DEF WriteTurn, TextAfter, IsPrompt
      <4> QED
        BY <3>1, <3>2, <4>1 DEF LastIn
    <3> QED
      BY <3>3, <3>4
  <2>4. ASSUME ~ \E h \in Hooks : WriteTurn(h) /\ u = arg[h].id, files[u] # None, LastIn(r, u)
        PROVE  LastIn(r, u)'
    BY <2>4, LastInStays
  <2>5. CASE ~ \E h \in Hooks : WriteTurn(h) /\ u = arg[h].id
    <3>1. files[u] # None /\ r.text = files[u].text
      BY <1>2, <2>1, <2>5, FileChange, ExpiredRecord
    <3>2. LastIn(files[u], u)
      BY <3>1 DEF LastKept
    <3>3. LastIn(r, u)
      BY <3>1, <3>2 DEF LastIn
    <3> QED
      BY <2>4, <2>5, <3>1, <3>3
  <2>6. ASSUME NEW h \in Hooks, WriteTurn(h), u = arg[h].id
        PROVE  r = Saved(h, held[h])
    BY <2>1, <2>6 DEF WriteTurn, Typed, Shared
  <2> QED
    BY <2>3, <2>5, <2>6
<1>3. ASSUME NEW h \in Hooks, pc'[h] = "write"
      PROVE  LastIn(held[h], arg[h].id)'
  <2>1. PICK r : r = held'[h]
    OBVIOUS
  <2>2. PICK u : u = arg[h].id
    OBVIOUS
  <2>3. CASE LoadTurn(h)
    <3>1. /\ pc[h] = "load" /\ held'[h] = Loaded(u) /\ arg' = arg /\ last' = last
          /\ overtaken' = overtaken
      BY <2>2, <2>3, Disjoint DEF LoadTurn, Goto, Typed, Locals
    <3>2. u \in Ids /\ ((Live(u) /\ r = files[u]) \/ r = Missing)
      BY <2>1, <2>2, <3>1, OwnLoaded DEF Owned
    <3>3. LastIn(r, u)
      BY <3>2, MissingRecord DEF LastKept, Live, LastIn
    <3> QED
      BY <2>1, <2>2, <3>1, <3>3 DEF LastIn
  <2>4. CASE pc[h] = "write" /\ held'[h] = held[h]
    <3>1. /\ r = held[h] /\ LastIn(r, u) /\ arg'[h] = arg[h] /\ u \in Ids
          /\ Acting(h) /\ Target(h) = u /\ h \in Procs
      BY <2>1, <2>2, <2>4, Stable, AtWrite DEF LastKept, Acting, Target, Procs
    <3>2. ASSUME NEW g \in Hooks, WriteTurn(g), arg[g].id = u
          PROVE  g \in overtaken'
      <4>1. pc[g] = "write" /\ pc'[g] = "done" /\ g \in Procs
        BY <3>2 DEF WriteTurn, Goto, Typed, Locals, Procs
      <4>2. Target(g) = u /\ h # g
        BY <1>3, <3>2, <4>1 DEF Target
      <4>3. Contended(g)
        BY <3>1, <4>2 DEF Contended
      <4> QED
        BY <3>2, <4>3 DEF WriteTurn, Overtake
    <3>3. LastIn(r, u)'
      BY <3>1, <3>2, LastInStays
    <3> QED
      BY <2>1, <2>2, <3>1, <3>3 DEF LastIn
  <2> QED
    BY <1>3, <2>3, <2>4, WriteChange
<1> QED
  BY <1>2, <1>3 DEF LastKept

LEMMA AlwaysLastKept == Spec => []LastKept
<1>1. Init => LastKept
  BY Disjoint DEF Init, LastKept, Procs
<1> QED
  BY <1>1, AlwaysOwned, LastKeptNext, PTL DEF Spec

\* A turn file holds a prompt's text only if that prompt was marked and is the
\* last one written to the turn; only if the last one was written while another
\* process was about to change the file can an earlier one's text be back
\* (record_prompt).
THEOREM OnlyMarkedPromptsKept == Spec => []PromptKept
<1>1. Prompts /\ LastKept => PromptKept
  BY DEF Prompts, KeepsPrompt, InPlay, PromptKept, LastKept, LastIn
<1> QED
  BY <1>1, AlwaysPrompts, AlwaysLastKept, PTL

-----------------------------------------------------------------------------
(* No event is lost.                                                       *)

StaleExpired == \A u \in Ids : files[u] # None /\ ~ files[u].fresh => Recorded(files[u]) \subseteq expired

Aware == \A p \in Procs : Acting(p) => InFile(Target(p)) \subseteq Known(p)

Safe == \A h \in Hooks : Done(h) => h \in Gone \cup InFile(arg[h].id)

Lossless == StaleExpired /\ Aware /\ Safe

LEMMA StaleExpiredNext ==
  ASSUME Typed, Owned, Lossless, [Next]_vars
  PROVE  StaleExpired'
<1> SUFFICES ASSUME NEW u \in Ids, files'[u] # None, ~ files'[u].fresh
             PROVE  Recorded(files'[u]) \subseteq expired'
  BY DEF StaleExpired, Recorded, Elems
<1>1. CASE files'[u] = files[u]
  BY <1>1, HistoryGrows DEF Lossless, StaleExpired
<1>2. CASE \E h \in Hooks : files'[u] = Saved(h, held[h])
  BY <1>2 DEF Saved
<1>3. CASE Expire(u) /\ files'[u] = Expired(files[u]) /\ files[u] \in Record
  <2>1. Recorded(files'[u]) = Recorded(files[u])
    BY <1>3, ExpiredRecord DEF Recorded
  <2> QED
    BY <1>3, <2>1 DEF Expire
<1> QED
  BY <1>1, <1>2, <1>3, FileChange

\* The events of a turn's file after a step.
LEMMA InFileChange ==
  ASSUME Typed, Owned, [Next]_vars, NEW u \in Ids
  PROVE  \/ InFile(u)' = InFile(u)
         \/ InFile(u)' = {} /\ \E p \in Procs \ Hooks : Acting(p) /\ Target(p) = u
         \/ \E h \in Hooks : /\ WriteTurn(h) /\ u = arg[h].id /\ Acting(h) /\ Target(h) = u
                            /\ InFile(u)' = Recorded(Saved(h, held[h]))
<1>1. files'[u] = files[u] => InFile(u)' = InFile(u)
  BY DEF InFile, Recorded, Elems
<1>2. files'[u] = None => InFile(u)' = {}
  BY DEF InFile
<1>3. ASSUME NEW h \in Hooks, files'[u] = Saved(h, held[h]), files'[u] # None
      PROVE  InFile(u)' = Recorded(Saved(h, held[h]))
  BY <1>3 DEF InFile, Recorded, Elems
<1>4. ASSUME files'[u] = Expired(files[u]), files'[u] # None, files[u] # None, files[u] \in Record
      PROVE  InFile(u)' = InFile(u)
  <2>1. files'[u].events = files[u].events
    BY <1>4, ExpiredRecord
  <2> QED
    BY <1>4, <2>1 DEF InFile, Recorded, Elems
<1> QED
  BY <1>1, <1>2, <1>3, <1>4, FileChange

\* What is in a file that is not live has expired.
LEMMA NotLive ==
  ASSUME Lossless, NEW u \in Ids, ~ Live(u)
  PROVE  InFile(u) \subseteq Gone
BY DEF Lossless, StaleExpired, Live, InFile, Gone

\* A process about to replace a file has just read it, or was about to before.
LEMMA ActingChange ==
  ASSUME Typed, Owned, [Next]_vars, NEW p \in Procs, pc'[p] \in {"write", "discard", "unlink"}
  PROVE  \/ p \in Hooks /\ LoadTurn(p)
         \/ p \in Reviews /\ LoadReviewed(p)
         \/ p \in Sweeps /\ \E t \in Ids : LookAt(p, t) /\ Stale(t) /\ arg'[p].id = t
         \/ Acting(p) /\ Target(p)' = Target(p) /\ Known(p) \subseteq Known(p)'
<1> USE Disjoint DEF Procs
<1>1. /\ pc \in [Procs -> {"idle", "load", "write", "discard", "walk", "unlink", "done"}]
      /\ pc' \in [Procs -> {"idle", "load", "write", "discard", "walk", "unlink", "done"}]
      /\ arg \in [Procs -> Args]
      /\ \A h \in Hooks : pc'[h] \in {"idle", "load", "write", "done"}
      /\ \A r \in Reviews : pc'[r] \in {"idle", "load", "discard", "done"}
      /\ \A w \in Sweeps : pc'[w] \in {"idle", "walk", "unlink", "done"}
  BY TypedNext DEF Typed, Locals
<1>2. CASE p \in Hooks
  <2>1. pc'[p] = "write"
    BY <1>1, <1>2
  <2>2. CASE pc[p] = "write" /\ held'[p] = held[p]
    <3>1. arg'[p] = arg[p]
      BY <1>2, <2>2, Stable
    <3>2. Target(p)' = Target(p)
      BY <1>2, <3>1 DEF Target
    <3>3. Recorded(held[p])' = Recorded(held[p])
      BY <2>2 DEF Recorded, Elems
    <3> QED
      BY <1>2, <2>2, <3>2, <3>3, HistoryGrows DEF Acting, Known
  <2> QED
    BY <1>2, <2>1, <2>2, WriteChange
<1>3. CASE p \in Reviews
  <2>1. pc'[p] = "discard"
    BY <1>1, <1>3
  <2>2. CASE held'[p] = held[p] /\ pc'[p] = pc[p]
    <3>1. arg'[p] = arg[p] /\ pc[p] = "discard"
      BY <1>3, <2>1, <2>2, Stable
    <3>2. Target(p)' = Target(p)
      BY <1>3, <2>2, <3>1 DEF Target, DiscardedTurn
    <3> QED
      BY <1>3, <3>1, <3>2, HistoryGrows DEF Acting, Known
  <2> QED
    BY <1>3, <2>1, <2>2, ReviewChange
<1>4. CASE p \in Sweeps
  <2>1. pc'[p] = "unlink"
    BY <1>1, <1>4
  <2>2. ASSUME NEW t \in Ids, LookAt(p, t)
        PROVE  Stale(t) /\ arg'[p].id = t
    BY <1>1, <1>4, <2>1, <2>2 DEF LookAt, Goto
  <2>3. ASSUME ~ \E t \in Ids : LookAt(p, t)
        PROVE  pc[p] = "unlink" /\ arg'[p] = arg[p]
    <3>1. ASSUME NEW w \in Sweeps, StartSweep(w) \/ Prune(w) \/ Unlink(w) \/ \E t \in Ids : LookAt(w, t)
          PROVE  pc[p] = "unlink" /\ arg'[p] = arg[p]
      BY <1>1, <1>4, <2>1, <2>3, <3>1 DEF StartSweep, Prune, Unlink, LookAt, Goto
    <3>2. ASSUME NEW w \in Sweeps, NEW h \in Hooks, PruneUnder(w, h)
          PROVE  pc[p] = "unlink" /\ arg'[p] = arg[p]
      BY <1>1, <1>4, <2>1, <3>2 DEF PruneUnder
    <3>3. ASSUME \/ \E h \in Hooks, k \in Kinds, s \in Signatures, t \in ids : StartHook(h, k, s, t)
                 \/ \E r \in Reviews, t \in ids \cup {Fallback} : StartReview(r, t)
          PROVE  pc[p] = "unlink" /\ arg'[p] = arg[p]
      BY SMTT(60), <1>1, <1>4, <2>1, <3>3 DEF StartHook, StartReview, Goto
    <3>4. ASSUME \/ UNCHANGED vars \/ \E t \in Ids : Expire(t)
                 \/ \E h \in Hooks : LoadTurn(h) \/ WriteTurn(h)
                 \/ \E r \in Reviews : LoadReviewed(r) \/ DiscardTurn(r)
          PROVE  pc[p] = "unlink" /\ arg'[p] = arg[p]
      BY <1>1, <1>4, <2>1, <3>4 DEF vars, Expire, LoadTurn, WriteTurn, LoadReviewed, DiscardTurn, Goto
    <3> QED
      BY <3>1, <3>2, <3>3, <3>4, NextCases DEF Quiet
  <2>4. ASSUME pc[p] = "unlink", arg'[p] = arg[p]
        PROVE  Acting(p) /\ Target(p)' = Target(p) /\ Known(p) \subseteq Known(p)'
    BY <1>4, <2>4, HistoryGrows DEF Acting, Target, Known
  <2> QED
    BY <1>4, <2>2, <2>3, <2>4
<1> QED
  BY <1>2, <1>3, <1>4 DEF Procs

LEMMA AwareNext ==
  ASSUME Typed, Owned, Lossless, [Next]_vars
  PROVE  Aware'
<1> SUFFICES ASSUME NEW p \in Procs, pc'[p] \in {"write", "discard", "unlink"}
             PROVE  InFile(Target(p))' \subseteq Known(p)'
  BY DEF Aware, Acting
<1> USE Disjoint
<1>1. PICK u : u = Target(p)'
  OBVIOUS
<1>2. SUFFICES InFile(u)' \subseteq Known(p)'
  BY <1>1 DEF InFile
<1>3. ASSUME files' = files
      PROVE  InFile(u)' = InFile(u)
  BY <1>3 DEF InFile, Recorded, Elems
<1>4. CASE p \in Hooks /\ LoadTurn(p)
  <2>1. /\ pc[p] = "load" /\ files' = files /\ arg' = arg /\ u = arg[p].id
        /\ held'[p] = Loaded(u)
    BY <1>1, <1>4 DEF LoadTurn, Goto, Target, Typed, Locals
  <2>2. Known(p)' = Recorded(held'[p]) \cup Gone'
    BY <1>4 DEF Known, Recorded, Elems
  <2>3. u \in Ids /\ ((Live(u) /\ Loaded(u) = files[u]) \/ ~ Live(u))
    BY <1>4, <2>1, OwnLoaded DEF Owned
  <2>4. CASE Live(u) /\ Loaded(u) = files[u]
    BY <1>3, <2>1, <2>2, <2>4 DEF InFile, Live
  <2>5. CASE ~ Live(u)
    BY <1>3, <2>1, <2>2, <2>3, <2>5, NotLive, HistoryGrows
  <2> QED
    BY <2>3, <2>4, <2>5
<1>5. CASE p \in Reviews /\ LoadReviewed(p)
  <2>1. PICK t : t = arg[p].id
    OBVIOUS
  <2>2. /\ files' = files /\ arg' = arg /\ t \in Ids /\ held'[p] = Loaded(t)
        /\ reviewed' = reviewed \cup Recorded(Loaded(t))
    BY <1>5, <2>1 DEF LoadReviewed, Goto, Typed, Locals, Shared, Ids
  <2>3. u = (IF Loaded(t).id # None THEN Loaded(t).id ELSE t) /\ Known(p)' = Gone'
    BY <1>1, <1>5, <2>1, <2>2 DEF Target, DiscardedTurn, Known
  <2>4. InFile(u) \subseteq Gone'
    <3>1. CASE u = t /\ ~ Live(t)
      BY <2>2, <3>1, NotLive, HistoryGrows
    <3>2. ASSUME NEW v \in Ids, Live(v), Loaded(t) = files[v], OfTurn(files[v], v), u = v
          PROVE  InFile(u) \subseteq Gone'
      BY <2>2, <3>2 DEF InFile, Live, Gone
    <3>3. ASSUME NEW v \in Ids, Live(v), Loaded(t) = files[v], OfTurn(files[v], v), u # v
          PROVE  u = t /\ v # t
      BY <2>3, <3>3 DEF OfTurn
    <3>4. CASE Loaded(t) = Missing /\ ~ Live(t)
      BY <2>3, <3>1, <3>4, MissingRecord
    <3> QED
      BY <2>2, <3>1, <3>2, <3>3, <3>4, ReviewLoaded DEF Owned
  <2> QED
    BY <1>3, <2>2, <2>3, <2>4
<1>6. ASSUME p \in Sweeps, NEW t \in Ids, LookAt(p, t), Stale(t), arg'[p].id = t
      PROVE  InFile(u)' \subseteq Known(p)'
  <2>1. u = t /\ files' = files /\ ~ Live(t) /\ Known(p)' = Gone'
    BY <1>1, <1>6 DEF LookAt, Target, Live, Stale, Known
  <2> QED
    BY <1>3, <2>1, NotLive, HistoryGrows
<1>7. ASSUME Acting(p), Target(p)' = Target(p), Known(p) \subseteq Known(p)'
      PROVE  InFile(u)' \subseteq Known(p)'
  <2>1. u = Target(p) /\ u \in Ids
    BY <1>1, <1>7, Reached
  <2>2. InFile(u) \subseteq Known(p)
    BY <1>7, <2>1 DEF Lossless, Aware
  <2>3. ASSUME NEW h \in Hooks, WriteTurn(h), Acting(h), Target(h) = u, u = arg[h].id
        PROVE  Recorded(Saved(h, held[h])) \subseteq Known(p)'
    <3>1. pc[h] = "write" /\ pc'[h] = "done" /\ h \in Procs
      BY <2>3 DEF WriteTurn, Goto, Typed, Locals, Procs
    <3>2. h # p
      BY <3>1
    <3>3. h \in Gone'
      <4>1. Contended(h)
        BY <1>7, <2>1, <2>3, <3>2 DEF Contended
      <4> QED
        BY <2>3, <4>1 DEF WriteTurn, Overtake, Gone
    <3>4. Recorded(Saved(h, held[h])) \subseteq Recorded(held[h]) \cup {h}
      BY <3>1, SavedRecord
    <3>5. ASSUME NEW e \in Recorded(held[h])
          PROVE  e \in Gone \cup InFile(u)
      <4>1. held[h] \in InPlay
        BY DEF InPlay
      <4>2. e \in Hooks /\ Done(e)
        BY <4>1 DEF Typed, Recording, Done, Shared
      <4>3. arg[e].id = u
        BY <2>3, <3>1 DEF Owned, OwnHeld, OfTurn
      <4> QED
        BY <4>2, <4>3 DEF Lossless, Safe
    <3>6. Gone \subseteq Known(p)
      BY DEF Known
    <3>7. Gone' \subseteq Known(p)'
      BY DEF Known
    <3> QED
      BY <1>7, <2>2, <3>3, <3>4, <3>5, <3>6, <3>7
  <2> QED
    BY <1>7, <2>1, <2>2, <2>3, InFileChange
<1> QED
  BY <1>4, <1>5, <1>6, <1>7, ActingChange

\* A hook that is done was so before, has written, or lost its directory.
LEMMA DoneChange ==
  ASSUME Typed, [Next]_vars, NEW h \in Hooks, Done(h)'
  PROVE  \/ Done(h)
         \/ WriteTurn(h)
         \/ \E w \in Sweeps : PruneUnder(w, h)
<1> USE Disjoint DEF Procs
<1>1. /\ pc \in [Procs -> {"idle", "load", "write", "discard", "walk", "unlink", "done"}]
      /\ h \in due => pc[h] \in {"write", "done"}
      /\ pc'[h] = "done" /\ h \in due'
  BY DEF Typed, Locals, Done
<1>2. ASSUME NEW g \in Hooks, LoadTurn(g)
      PROVE  Done(h)
  BY <1>1, <1>2 DEF LoadTurn, Goto, Done
<1>3. ASSUME NEW g \in Hooks, WriteTurn(g)
      PROVE  Done(h) \/ WriteTurn(h)
  BY <1>1, <1>3 DEF WriteTurn, Goto, Done, history
<1>4. CASE Quiet
  BY <1>1, <1>4 DEF Quiet, vars, history, StartHook, StartReview, StartSweep, LoadReviewed, Prune,
     LookAt, Goto, Done
<1>5. ASSUME \/ \E r \in Reviews : DiscardTurn(r)
             \/ \E w \in Sweeps : Unlink(w)
             \/ \E t \in Ids : Expire(t)
      PROVE  Done(h)
  BY <1>1, <1>5 DEF DiscardTurn, Unlink, Expire, Goto, Done, history
<1>6. ASSUME NEW w \in Sweeps, NEW g \in Hooks, PruneUnder(w, g)
      PROVE  Done(h) \/ PruneUnder(w, h)
  BY <1>1, <1>6 DEF PruneUnder, Done, history
<1> QED
  BY <1>2, <1>3, <1>4, <1>5, <1>6, NextCases

LEMMA SafeNext ==
  ASSUME Typed, Owned, Lossless, [Next]_vars
  PROVE  Safe'
<1> SUFFICES ASSUME NEW h \in Hooks, Done(h)'
             PROVE  h \in Gone' \cup InFile(arg[h].id)'
  BY DEF Safe
<1> USE Disjoint
<1>1. pc[h] # "idle" /\ arg'[h] = arg[h]
  BY DoneChange, Stable DEF Done, WriteTurn, Goto, PruneUnder
<1>2. PICK u : u = arg[h].id
  OBVIOUS
<1>3. u \in Ids
  BY <1>1, <1>2 DEF Typed, Locals, Shared, Ids
<1>4. SUFFICES h \in Gone' \cup InFile(u)'
  BY <1>1, <1>2 DEF InFile
<1>5. CASE WriteTurn(h)
  <2>1. pc[h] = "write" /\ files' = [files EXCEPT ![u] = Saved(h, held[h])]
    BY <1>2, <1>5 DEF WriteTurn, Goto
  <2>2. files'[u] = Saved(h, held[h]) /\ files'[u] # None
    BY <1>3, <2>1, SavedRecord, NoneIsNoRecord DEF Typed, Shared
  <2>3. h \in Recorded(Saved(h, held[h]))
    BY <2>1, SavedRecord
  <2> QED
    BY <2>2, <2>3 DEF InFile, Recorded, Elems
<1>6. ASSUME NEW w \in Sweeps, PruneUnder(w, h)
      PROVE  h \in Gone'
  BY <1>6 DEF PruneUnder, Gone
<1>7. CASE Done(h)
  <2>1. h \in Gone \cup InFile(u)
    BY <1>2, <1>3, <1>7 DEF Lossless, Safe
  <2>2. ASSUME NEW p \in Procs \ Hooks, Acting(p), Target(p) = u
        PROVE  InFile(u) \subseteq Gone
    BY <1>3, <2>2 DEF Lossless, Aware, Known
  <2>3. ASSUME NEW g \in Hooks, WriteTurn(g), Acting(g), Target(g) = u
        PROVE  InFile(u) \subseteq Recorded(Saved(g, held[g])) \cup Gone'
    <3>1. evicted' = evicted \cup (Recorded(held[g]) \ Recorded(Saved(g, held[g])))
      BY <2>3 DEF WriteTurn
    <3>2. InFile(u) \subseteq Recorded(held[g]) \cup Gone
      BY <1>3, <2>3 DEF Lossless, Aware, Known, Procs
    <3>3. evicted' \subseteq Gone'
      BY DEF Gone
    <3> QED
      BY <3>1, <3>2, <3>3, HistoryGrows
  <2> QED
    BY <1>3, <2>1, <2>2, <2>3, InFileChange, HistoryGrows
<1> QED
  BY <1>5, <1>6, <1>7, DoneChange

LEMMA LosslessNext ==
  ASSUME Typed, Owned, Lossless, [Next]_vars
  PROVE  Lossless'
BY StaleExpiredNext, AwareNext, SafeNext DEF Lossless

LEMMA AlwaysLossless == Spec => []Lossless
<1>1. Init => Lossless
  BY DEF Init, Lossless, StaleExpired, Aware, Safe, Acting, Done
<1> QED
  BY <1>1, AlwaysOwned, LosslessNext, PTL DEF Spec

\* No event is lost but in one way: it is in a file, or was loaded by a review,
\* dropped by the cap, or expired, unless when it was written another process was
\* about to change the file or had removed its directory (capture.record_*,
\* discard_turn, store.sweep).
THEOREM NoEventLost == Spec => []NothingLost
<1>1. Safe /\ Typed => NothingLost
  BY DEF Safe, Typed, Locals, Shared, Ids, NothingLost, Done, Gone, InFile
<1> QED
  BY <1>1, AlwaysTyped, AlwaysLossless, PTL DEF Lossless

-----------------------------------------------------------------------------
(* A review leaves no prompt.                                              *)

\* Once a review is over, the text it loaded is in no file and in no hook's hands.
TextGone ==
  \A r \in Reviews : pc[r] = "done" /\ held[r].text # None /\ r \notin overtaken =>
    /\ \A u \in Ids : files[u] # None => files[u].text # held[r].text
    /\ \A h \in Hooks : pc[h] = "write" => held[h].text # held[r].text

\* A text gone from files and hands does not come back.
LEMMA TextStaysGone ==
  ASSUME Typed, Owned, [Next]_vars, NEW x \in Hooks, Done(x),
         \A u \in Ids : files[u] # None => files[u].text # x,
         \A h \in Hooks : pc[h] = "write" => held[h].text # x
  PROVE  /\ \A u \in Ids : files'[u] # None => files'[u].text # x
         /\ \A h \in Hooks : pc'[h] = "write" => held'[h].text # x
<1> x # None
  BY ConstantsAssumption
<1>1. ASSUME NEW u \in Ids, files'[u] # None
      PROVE  files'[u].text # x
  <2>1. CASE files'[u] = files[u]
    BY <1>1, <2>1
  <2>2. ASSUME NEW h \in Hooks, WriteTurn(h), files'[u] = Saved(h, held[h])
        PROVE  files'[u].text # x
    <3>1. pc[h] = "write" /\ h # x
      BY <2>2 DEF WriteTurn, Goto, Done
    <3>2. files'[u].text = TextAfter(h, held[h])
      BY <2>2 DEF Saved
    <3> QED
      BY <3>1, <3>2 DEF TextAfter
  <2>3. CASE files'[u] = Expired(files[u]) /\ files[u] # None /\ files[u] \in Record
    <3>1. files'[u].text = files[u].text
      BY <2>3, ExpiredRecord
    <3> QED
      BY <2>3, <3>1
  <2> QED
    BY <1>1, <2>1, <2>2, <2>3, FileChange
<1>2. ASSUME NEW h \in Hooks, pc'[h] = "write"
      PROVE  held'[h].text # x
  <2>1. CASE LoadTurn(h)
    <3>1. held'[h] = Loaded(arg[h].id) /\ pc[h] = "load"
      BY <2>1, Disjoint DEF LoadTurn, Goto, Typed, Locals
    <3> QED
      BY <3>1, OwnLoaded, MissingRecord DEF Owned, Live
  <2> QED
    BY <1>2, <2>1, WriteChange
<1> QED
  BY <1>1, <1>2

LEMMA TextGoneNext ==
  ASSUME Typed, Prompts, Owned, TextGone, [Next]_vars
  PROVE  TextGone'
<1> SUFFICES ASSUME NEW r \in Reviews, pc'[r] = "done", held'[r].text # None, r \notin overtaken'
             PROVE  /\ \A u \in Ids : files'[u] # None => files'[u].text # held'[r].text
                    /\ \A h \in Hooks : pc'[h] = "write" => held'[h].text # held'[r].text
  BY DEF TextGone
<1> USE Disjoint
<1>1. PICK x : x = held'[r].text
  OBVIOUS
<1>2. /\ DiscardTurn(r) \/ (pc[r] = "done" /\ held'[r] = held[r])
      /\ held'[r].text = held[r].text /\ held'[r].id = held[r].id
  <2>1. ASSUME held'[r] = [Missing EXCEPT !.id = held[r].id, !.text = held[r].text]
        PROVE  held'[r].text = held[r].text /\ held'[r].id = held[r].id
    BY <2>1 DEF Missing
  <2> QED
    BY <2>1, ReviewChange
<1>3. held[r].id \in Ids /\ x \in Hooks /\ Done(x) /\ arg[x].id = held[r].id /\ held[r].id # None
  <2>1. held[r] \in Record
    BY DEF Typed, Locals
  <2>2. x \in Hooks
    BY <1>1, <1>2, <2>1 DEF Record
  <2>3. held[r].id \in Ids /\ Done(x) /\ arg[x].id = held[r].id
    BY <1>1, <1>2 DEF Owned, OwnHeld
  <2> QED
    BY <2>2, <2>3, ConstantsAssumption DEF Ids
<1>4. PICK u \in Ids : u = held[r].id
  BY <1>3
<1>5. DiscardedTurn(r) = u /\ r \notin overtaken
  BY <1>2, <1>3, <1>4, HistoryGrows DEF DiscardedTurn
<1>6. CASE pc[r] = "done"
  <2>1. /\ \A v \in Ids : files[v] # None => files[v].text # x
        /\ \A h \in Hooks : pc[h] = "write" => held[h].text # x
    BY <1>1, <1>2, <1>5, <1>6 DEF TextGone
  <2> QED
    BY <1>1, <1>3, <2>1, TextStaysGone
<1>7. CASE DiscardTurn(r)
  <2>1. files' = [files EXCEPT ![u] = None] /\ pc[r] = "discard" /\ pc' = [pc EXCEPT ![r] = "done"]
    BY <1>5, <1>7 DEF DiscardTurn, Goto
  <2>2. ASSUME NEW v \in Ids, files'[v] # None
        PROVE  files'[v].text # x
    <3>1. v # u /\ files'[v] = files[v] /\ files[v] # None
      BY <2>1, <2>2 DEF Typed, Shared
    <3>2. OfTurn(files[v], v)
      BY <3>1 DEF Owned, OwnFiles
    <3> QED
      BY <1>3, <1>4, <3>1, <3>2, ConstantsAssumption DEF OfTurn
  <2>3. ASSUME NEW h \in Hooks, pc'[h] = "write"
        PROVE  held'[h].text # x
    <3>1. pc[h] = "write" /\ held'[h] = held[h]
      BY <1>7, <2>1, <2>3 DEF DiscardTurn, Typed, Locals, Procs
    <3>2. OfTurn(held[h], arg[h].id)
      BY <3>1 DEF Owned, OwnHeld
    <3>3. SUFFICES ASSUME held[h].text = x PROVE FALSE
      BY <3>1
    <3>4. arg[h].id = u
      BY <1>3, <1>4, <3>2, <3>3, ConstantsAssumption DEF OfTurn
    <3>5. Acting(h) /\ Target(h) = u /\ Acting(r) /\ Target(r) = u /\ h # r /\ h \in Procs /\ r \in Procs
      BY <1>5, <2>1, <3>1, <3>4 DEF Acting, Target, Procs
    <3>6. Contended(r)
      BY <3>5 DEF Contended
    <3> QED
      BY <1>7, <3>6 DEF DiscardTurn, Overtake
  <2> QED
    BY <1>1, <2>2, <2>3
<1> QED
  BY <1>2, <1>6, <1>7

LEMMA AlwaysTextGone == Spec => []TextGone
<1>1. Init => TextGone
  BY DEF Init, TextGone, Procs
<1> QED
  BY <1>1, AlwaysOwned, TextGoneNext, PTL DEF Spec

\* Once a review is over, no file holds the prompt it loaded, unless a hook was
\* about to write the file back when the review deleted it (orchestrate.run,
\* discard_turn).
THEOREM NoPromptLeft == Spec => []ReviewLeavesNoPrompt
<1>1. TextGone => ReviewLeavesNoPrompt
  BY DEF TextGone, ReviewLeavesNoPrompt
<1> QED
  BY <1>1, AlwaysTextGone, PTL
=============================================================================
