----------------------------- MODULE ReviewProofs -----------------------------
(***************************************************************************)
(* Theorems about Review, for every value of its constants.                *)
(*                                                                         *)
(* The invariants are proved in layers, each from those before it:         *)
(* Typed (what a process holds at each step), Referring (whom a session    *)
(* awaits, in the counters and in every copy of them), and then each on    *)
(* its own: Listed (what the queue and every copy of it hold), Counted     *)
(* (what the counters and every copy of them say of the reviews that were  *)
(* billed), Watching (which candidate a session awaits, and where the      *)
(* reviews of that session are).                                           *)
(***************************************************************************)
EXTENDS Review, SequenceTheorems, FiniteSetTheorems, WellFoundedInduction, TLAPS

-----------------------------------------------------------------------------
(* Inductive invariants.                                                   *)

Turn == [session : Sessions, signal : Signals]

\* From here on a review's candidate has been stored.
Later == {"queue", "queueing", "discard", "await", "awaiting", "wake"}

At(p) ==
  /\ pc[p] \in Copying => cview[p] \in Counters
  /\ Len(qview[p]) <= QueueMax /\ Queued(qview[p]) \subseteq stored
  /\ p \in Reviews => /\ pc[p] # "idle" => event[p] \in Turn
                      /\ pc[p] \in Later => p \in stored
                      /\ p \in stored => pc[p] \in Later \cup {"done"}
  /\ p \in Shows /\ pc[p] # "idle" => shown[p] \in stored

Kinds == {"noted", "queued", "flagged"}

Marked == amid \in [Kinds -> SUBSET Reviews]

Shared ==
  /\ now \in 0 .. MaxTime /\ faults \in 0 .. MaxFaults
  /\ counters \in Counters
  /\ pending \in Seq(Reviews) /\ Len(pending) <= QueueMax /\ Queued(pending) \subseteq stored
  /\ turns \subseteq Reviews /\ live \subseteq stored
  /\ billed \subseteq [review : Reviews, day : Nat]
  /\ stored \subseteq Reviews
  /\ woken \subseteq stored /\ presented \subseteq stored /\ evicted \subseteq stored
  /\ lifted \subseteq Reviews
  /\ Marked

Locals ==
  /\ pc \in [Procs -> Steps]
  /\ event \in [Reviews -> Turn \cup {None}]
  /\ shown \in [Shows -> Reviews \cup {None}]
  /\ seen \in [Reviews -> Reviews \cup {None}]
  /\ cview \in [Procs -> Counters \cup {None}]
  /\ qview \in [Procs -> Seq(Reviews)]

Typed == Shared /\ Locals /\ \A p \in Procs : At(p)

\* A session awaits only a candidate of its own, past its turn.
ReferredIn(c, candidates, of, begun) ==
  \A s \in Sessions : c.awaiting[s] # None =>
    /\ c.awaiting[s] \in candidates
    /\ of[c.awaiting[s]].session = s
    /\ c.awaiting[s] \notin begun

Referred(c) == ReferredIn(c, stored, event, turns)

Referring ==
  /\ Referred(counters)
  /\ \A p \in Procs : pc[p] \in Copying => Referred(cview[p])
  /\ \A r \in Reviews : pc[r] \in {"await", "awaiting", "wake"} => r \notin turns

\* Told of a candidate: its session, or about to be.
Told(c) == c \in woken \/ pc[c] \in {"discard", "await", "awaiting", "wake"}

\* Candidates the queue owes to the next session.
MustStay == {c \in live \ (presented \cup evicted \cup amid["queued"]) : Told(c)}

\* The queue holds them, and so does every copy of it that may be written back.
Listed ==
  /\ MustStay \subseteq Queued(pending)
  /\ \A p \in Procs : pc[p] \in Listing => MustStay \subseteq Queued(qview[p])

\* The automatic reviews that were not noted amid others, and those of one day.
Tallied  == {b \in billed : Automatic(b) /\ b.review \notin amid["noted"]}
On(S, d) == {b \in S : b.day = d}

\* A record of the counters that is no older than any of them, and counts all
\* those of its own day.
SoundIn(k, S, today) ==
  /\ k.day <= today
  /\ \A b \in S : b.day <= k.day
  /\ Cardinality(On(S, k.day)) <= k.count

Sound(k) == SoundIn(k, Tallied, Day(now))

Billed ==
  /\ IsFiniteSet(billed)
  /\ \A b \in billed : b.day <= Day(now) /\ pc[b.review] # "idle"

Today == On(Tallied, Day(now))

\* A review that nobody asked for goes ahead below the limit.
BelowLimit(r) ==
  pc[r] \in {"note", "noting"} /\ event[r].signal # "forced" => Cardinality(Today) < Limit

Counted ==
  /\ Billed
  /\ Sound(counters)
  /\ \A p \in Procs : pc[p] \in Copying => Sound(cview[p])
  /\ \A r \in Reviews : BelowLimit(r)
  /\ \A d \in Nat : Cardinality(On(Tallied, d)) <= Limit

\* The candidates that guard their session.
Owed == {c \in live : Guarded(c) /\ (c \in woken \/ pc[c] = "wake")}

AwaitedIn(k) == \A c \in Owed : k.awaiting[SessionOf(c)] = c

\* A review of such a session has not passed the check, or is about to fail it.
Heeds(r) ==
  \A c \in Owed : SessionOf(c) = SessionOf(r) /\ pc[r] \in Checked
    => pc[r] = "record" /\ seen[r] = c

Watching ==
  /\ AwaitedIn(counters)
  /\ \A p \in Procs : pc[p] \in Copying => AwaitedIn(cview[p])
  /\ \A r \in Reviews : Heeds(r)
  /\ \A x \in Shows : pc[x] = "idle" => shown[x] = None

-----------------------------------------------------------------------------
(* Induction, and what the operators on the queue return.                  *)

\* Induction over the naturals, for a set: the theorem of the library is about
\* an operator, which the provers cannot instantiate.
LEMMA Induction ==
  ASSUME NEW T, 0 \in T, \A n \in Nat : n \in T => n + 1 \in T
  PROVE  Nat \subseteq T
<1> DEFINE Below == {ss \in Nat \X Nat : ss[1] < ss[2]}
<1> SUFFICES ASSUME Nat \ T # {} PROVE FALSE
  OBVIOUS
<1>1. IsWellFoundedOn(Below, Nat)
  BY NatLessThanWellFounded DEF OpToRel
<1>2. PICK n \in Nat \ T : \A m \in Nat \ T : ~ (<<m, n>> \in Below)
  <2> HIDE DEF Below
  <2> QED BY <1>1, WFMin
<1>3. n # 0 /\ n - 1 \in Nat
  OBVIOUS
<1>4. n - 1 \in Nat \ T
  BY <1>3, n = (n - 1) + 1
<1>5. <<n - 1, n>> \in Below
  BY <1>3
<1> QED
  BY <1>2, <1>4, <1>5

LEMMA QueuedAppend ==
  ASSUME NEW q \in Seq(Reviews), NEW c \in Reviews
  PROVE  /\ Append(q, c) \in Seq(Reviews) /\ Len(Append(q, c)) = Len(q) + 1
         /\ Queued(Append(q, c)) = Queued(q) \cup {c}
<1> DEFINE w == Append(q, c)
<1>1. /\ w \in Seq(Reviews) /\ Len(w) = Len(q) + 1
      /\ \A i \in 1 .. Len(q) : w[i] = q[i]
      /\ w[Len(q) + 1] = c
  BY AppendProperties
<1> HIDE DEF w
<1>2. ASSUME NEW d
      PROVE  d \in Queued(w) <=> d \in Queued(q) \cup {c}
  <2>1. ASSUME NEW i \in 1 .. Len(w), d = w[i]
        PROVE  d \in Queued(q) \cup {c}
    <3>1. i \in 1 .. Len(q) \/ i = Len(q) + 1
      BY <1>1
    <3> QED
      BY <1>1, <2>1, <3>1 DEF Queued
  <2>2. ASSUME NEW i \in 1 .. Len(q), d = q[i]
        PROVE  d \in Queued(w)
    <3>1. i \in 1 .. Len(w) /\ w[i] = d
      BY <1>1, <2>2
    <3> QED
      BY <3>1 DEF Queued
  <2>3. c \in Queued(w)
    <3>1. Len(q) + 1 \in 1 .. Len(w)
      BY <1>1
    <3> QED
      BY <1>1, <3>1 DEF Queued
  <2> QED
    BY <2>1, <2>2, <2>3 DEF Queued
<1> QED
  BY <1>1, <1>2 DEF w

\* The recursion of Without, up to m.
Filters(f, q, c, m) ==
  f = [n \in 0 .. m |-> IF n = 0 THEN <<>>
                        ELSE IF q[n] = c THEN f[n - 1] ELSE Append(f[n - 1], q[n])]

LEMMA FilterExists ==
  ASSUME NEW q \in Seq(Reviews), NEW c
  PROVE  \E f : Filters(f, q, c, Len(q))
<1> DEFINE T == {m \in Nat : \E f : Filters(f, q, c, m)}
<1>1. 0 \in T
  <2>1. Filters([n \in 0 .. 0 |-> <<>>], q, c, 0)
    BY DEF Filters
  <2> QED
    BY <2>1
<1>2. ASSUME NEW m \in Nat, m \in T
      PROVE  m + 1 \in T
  <2>1. PICK f : Filters(f, q, c, m)
    BY <1>2
  <2> DEFINE g == [n \in 0 .. m + 1 |->
                     IF n <= m THEN f[n]
                     ELSE IF q[m + 1] = c THEN f[m] ELSE Append(f[m], q[m + 1])]
  <2>2. \A n \in 0 .. m :
          f[n] = IF n = 0 THEN <<>>
                 ELSE IF q[n] = c THEN f[n - 1] ELSE Append(f[n - 1], q[n])
    BY <2>1 DEF Filters
  <2>3. ASSUME NEW n \in 0 .. m + 1
        PROVE  g[n] = IF n = 0 THEN <<>>
                      ELSE IF q[n] = c THEN g[n - 1] ELSE Append(g[n - 1], q[n])
    <3>1. CASE n <= m
      <4>1. n # 0 => n - 1 \in 0 .. m /\ g[n - 1] = f[n - 1]
        BY <3>1
      <4> QED
        BY <2>2, <3>1, <4>1
    <3>2. CASE n = m + 1
      <4>1. g[n] = IF q[n] = c THEN f[m] ELSE Append(f[m], q[n])
        BY <3>2
      <4>2. n # 0 /\ n - 1 = m /\ g[n - 1] = f[m]
        BY <3>2
      <4> QED
        BY <4>1, <4>2
    <3> QED
      BY <3>1, <3>2
  <2>4. Filters(g, q, c, m + 1)
    BY <2>3 DEF Filters
  <2> QED
    BY <2>4
<1> HIDE DEF T
<1>3. Nat \subseteq T
  BY <1>1, <1>2, Induction
<1> QED
  BY <1>3 DEF T

\* Without(q, c) is as long as q at most, and holds what q holds but c.
LEMMA WithoutProperties ==
  ASSUME NEW q \in Seq(Reviews), NEW c
  PROVE  /\ Without(q, c) \in Seq(Reviews)
         /\ Len(Without(q, c)) <= Len(q)
         /\ Queued(Without(q, c)) = Queued(q) \ {c}
<1> DEFINE f == CHOOSE f : Filters(f, q, c, Len(q))
           Upto(n) == {q[i] : i \in 1 .. n}
           T == {n \in Nat : n <= Len(q) =>
                   /\ f[n] \in Seq(Reviews) /\ Len(f[n]) <= n
                   /\ Queued(f[n]) = Upto(n) \ {c}}
<1>1. Filters(f, q, c, Len(q))
  BY FilterExists
<1>2. Without(q, c) = f[Len(q)]
  BY DEF Without, Filters
<1> HIDE DEF f
<1>3. \A n \in 0 .. Len(q) :
        f[n] = IF n = 0 THEN <<>>
               ELSE IF q[n] = c THEN f[n - 1] ELSE Append(f[n - 1], q[n])
  BY <1>1 DEF Filters
<1>4. 0 \in T
  <2>1. f[0] = <<>>
    BY <1>3
  <2>2. Queued(<<>>) = {} /\ Upto(0) = {}
    BY DEF Queued
  <2>3. <<>> \in Seq(Reviews) /\ Len(<<>>) = 0
    OBVIOUS
  <2>4. f[0] \in Seq(Reviews) /\ Len(f[0]) <= 0 /\ Queued(f[0]) = Upto(0) \ {c}
    <3> HIDE DEF Upto
    <3> QED BY <2>1, <2>2, <2>3
  <2> QED
    BY <2>4
<1>5. ASSUME NEW n \in Nat, n \in T
      PROVE  n + 1 \in T
  <2> SUFFICES ASSUME n + 1 <= Len(q)
               PROVE  /\ f[n + 1] \in Seq(Reviews) /\ Len(f[n + 1]) <= n + 1
                      /\ Queued(f[n + 1]) = Upto(n + 1) \ {c}
    OBVIOUS
  <2>1. /\ f[n] \in Seq(Reviews) /\ Len(f[n]) <= n
        /\ Queued(f[n]) = Upto(n) \ {c}
    BY <1>5
  <2>2. f[n + 1] = IF q[n + 1] = c THEN f[n] ELSE Append(f[n], q[n + 1])
    BY <1>3
  <2>3. Upto(n + 1) = Upto(n) \cup {q[n + 1]}
    OBVIOUS
  <2>4. q[n + 1] \in Reviews
    OBVIOUS
  <2>5. CASE q[n + 1] = c
    BY <2>1, <2>2, <2>3, <2>5
  <2>6. CASE q[n + 1] # c
    <3>1. /\ f[n + 1] \in Seq(Reviews) /\ Len(f[n + 1]) = Len(f[n]) + 1
          /\ Queued(f[n + 1]) = Queued(f[n]) \cup {q[n + 1]}
      BY <2>1, <2>2, <2>4, <2>6, QueuedAppend
    <3> QED
      BY <2>1, <2>3, <2>6, <3>1
  <2> QED
    BY <2>5, <2>6
<1> HIDE DEF T
<1>6. Len(q) \in T
  <2>1. Nat \subseteq T
    BY <1>4, <1>5, Induction
  <2> QED
    BY <2>1
<1>7. Upto(Len(q)) = Queued(q)
  BY DEF Queued
<1> HIDE DEF Upto
<1> QED
  BY <1>2, <1>6, <1>7 DEF T

\* What the end of a sequence holds.
LEMMA SuffixProperties ==
  ASSUME NEW S, NEW w \in Seq(S), NEW low \in Int, 1 <= low, low <= Len(w),
         NEW cut, cut = SubSeq(w, low, Len(w))
  PROVE  /\ cut \in Seq(S) /\ Len(cut) = Len(w) - low + 1
         /\ \A i \in 1 .. Len(w) - low + 1 : cut[i] = w[low + i - 1]
<1>1. cut \in Seq(S)
  OBVIOUS
<1>2. Len(cut) = Len(w) - low + 1
  OBVIOUS
<1>3. \A i \in 1 .. Len(w) - low + 1 : cut[i] = w[low + i - 1]
  OBVIOUS
<1> QED
  BY <1>1, <1>2, <1>3

\* Cutting a queue keeps what was appended last.
LEMMA NewestProperties ==
  ASSUME NEW q \in Seq(Reviews), NEW c \in Reviews, NEW w, w = Append(q, c)
  PROVE  /\ Newest(w) \in Seq(Reviews) /\ Len(Newest(w)) <= QueueMax
         /\ Queued(Newest(w)) \subseteq Queued(w) /\ c \in Queued(Newest(w))
<1>1. w \in Seq(Reviews) /\ Len(w) \in Nat /\ Len(w) # 0 /\ w[Len(w)] = c
  BY AppendProperties
<1>2. QueueMax \in Nat /\ QueueMax # 0
  BY ConstantsAssumption
<1>3. CASE Len(w) <= QueueMax
  <2>1. Newest(w) = w
    BY <1>1, <1>2, <1>3 DEF Newest
  <2>2. Len(w) \in 1 .. Len(w)
    BY <1>1
  <2>3. c \in Queued(w)
    BY <1>1, <2>2 DEF Queued
  <2> QED
    BY <1>1, <1>3, <2>1, <2>3
<1>4. CASE Len(w) > QueueMax
  <2> DEFINE low == Len(w) - QueueMax + 1
             cut == SubSeq(w, low, Len(w))
  <2>1. low \in Int /\ 1 <= low /\ low <= Len(w) /\ Len(w) - low + 1 = QueueMax
    BY <1>1, <1>2, <1>4
  <2>2. Newest(w) = cut
    BY <1>4 DEF Newest
  <2> HIDE DEF low
  <2>3. /\ cut \in Seq(Reviews) /\ Len(cut) = Len(w) - low + 1
        /\ \A i \in 1 .. Len(w) - low + 1 : cut[i] = w[low + i - 1]
    BY ZenonT(60), <1>1, <2>1, SuffixProperties
  <2> HIDE DEF cut
  <2>4. \A i \in 1 .. Len(cut) : cut[i] = w[low + i - 1] /\ low + i - 1 \in 1 .. Len(w)
    BY <1>1, <1>2, <2>1, <2>3
  <2>5. Queued(cut) \subseteq Queued(w)
    BY <2>4 DEF Queued
  <2>6. Len(cut) \in 1 .. Len(cut) /\ cut[Len(cut)] = c
    BY <1>1, <1>2, <2>1, <2>3
  <2>7. c \in Queued(cut)
    BY <2>6 DEF Queued
  <2> QED
    BY <1>2, <2>1, <2>2, <2>3, <2>5, <2>7
<1> QED
  BY <1>1, <1>2, <1>3, <1>4


\* A later time is on the same day or a later one.
LEMMA DayProperties ==
  /\ \A t \in Nat : Day(t) \in Nat
  /\ \A t, u \in Nat : t <= u => Day(t) <= Day(u)
<1> DEFINE d == DayLength
<1> d \in Nat /\ d > 0
  BY ConstantsAssumption
<1> HIDE DEF d
<1>1. \A t \in Nat : t \div d \in Nat
  OBVIOUS
<1>2. ASSUME NEW t \in Nat, NEW u \in Nat, t <= u
      PROVE  t \div d <= u \div d
  <2> DEFINE a == t \div d
        b == u \div d
  <2>1. a \in Nat /\ b \in Nat /\ d * a <= t /\ u < d * (b + 1)
    OBVIOUS
  <2> HIDE DEF a, b
  <2>2. d * a < d * (b + 1)
    BY <1>2, <2>1
  <2>3. a < b + 1
    BY <2>1, <2>2
  <2> QED
    BY <2>1, <2>3 DEF a, b
<1> QED
  BY <1>1, <1>2 DEF Day, d

\* Setting a session's flag, or clearing it.
LEMMA FlagProperties ==
  ASSUME NEW c \in Counters, NEW s \in Sessions, NEW v \in Reviews \cup {None},
         NEW d, d = [c EXCEPT !.awaiting[s] = v]
  PROVE  /\ d \in Counters
         /\ d.day = c.day /\ d.count = c.count /\ d.last = c.last
         /\ d.awaiting = [c.awaiting EXCEPT ![s] = v]
BY DEF Counters

\* A record of counters with its count and last review anew.
LEMMA RecordProperties ==
  ASSUME NEW c \in Counters, NEW n \in Nat, now \in Nat, NEW d,
         d = [day |-> c.day, count |-> n, last |-> now, awaiting |-> c.awaiting]
  PROVE  d \in Counters /\ d.day = c.day /\ d.count = n /\ d.awaiting = c.awaiting
<1>1. d.day = c.day /\ d.count = n /\ d.awaiting = c.awaiting
  OBVIOUS
<1>2. d \in Counters
  BY DEF Counters
<1> QED
  BY <1>1, <1>2

\* What note_review makes of the counters it read.
LEMMA NotedProperties ==
  ASSUME NEW c \in Counters, now \in Nat
  PROVE  /\ Noted(c) \in Counters /\ Noted(c).day = Day(now)
         /\ Noted(c).count = IF c.day = Day(now) THEN c.count + 1 ELSE 1
         /\ Noted(c).awaiting = IF c.day = Day(now) THEN c.awaiting
                                ELSE [s \in Sessions |-> None]
<1>1. Day(now) \in Nat
  BY DayProperties
<1> DEFINE d == IF c.day = Day(now) THEN c
                ELSE [c EXCEPT !.day = Day(now), !.count = 0,
                               !.awaiting = [s \in Sessions |-> None]]
<1>2. /\ d \in Counters /\ d.day = Day(now)
      /\ d.count = IF c.day = Day(now) THEN c.count ELSE 0
      /\ d.awaiting = IF c.day = Day(now) THEN c.awaiting ELSE [s \in Sessions |-> None]
  <2>1. CASE c.day = Day(now)
    BY <2>1
  <2>2. CASE c.day # Day(now)
    BY <1>1, <2>2 DEF Counters
  <2> QED
    BY <2>1, <2>2
<1>3. Noted(c) = [d EXCEPT !.count = d.count + 1, !.last = now]
  BY DEF Noted
<1> HIDE DEF d
<1>4. d.count + 1 \in Nat
  BY <1>2 DEF Counters
<1>5. Noted(c) = [day |-> d.day, count |-> d.count + 1, last |-> now, awaiting |-> d.awaiting]
  BY <1>2, <1>3 DEF Counters
<1>6. /\ Noted(c) \in Counters /\ Noted(c).day = d.day /\ Noted(c).count = d.count + 1
      /\ Noted(c).awaiting = d.awaiting
  BY <1>2, <1>4, <1>5, RecordProperties
<1> QED
  BY <1>2, <1>6

-----------------------------------------------------------------------------
(* The types.                                                              *)

LEMMA TypedInit == Init => Typed
<1> SUFFICES ASSUME Init PROVE Typed
  OBVIOUS
<1>1. <<>> \in Seq(Reviews) /\ Len(<<>>) = 0
  OBVIOUS
<1>2. Queued(<<>>) = {}
  BY DEF Queued
<1>3. counters \in Counters
  BY DEF Init, Counters
<1>4. Shared
  <2>1. Marked
    BY DEF Init, Marked, Kinds
  <2> QED
    BY ConstantsAssumption, <1>1, <1>2, <1>3, <2>1 DEF Init, Shared
<1>5. Locals
  BY <1>1 DEF Init, Locals, Steps
<1>6. \A p \in Procs : At(p)
  BY ConstantsAssumption, <1>1, <1>2 DEF Init, At, Copying, Later, Procs
<1> QED
  BY <1>4, <1>5, <1>6 DEF Typed

LEMMA AwaitedIsReview ==
  ASSUME Typed, NEW s \in Sessions
  PROVE  counters.awaiting[s] \in Reviews \cup {None}
BY DEF Typed, Shared, Counters

\* The steps that write no file: they only test, or read a file.
Walks(r) ==
  \/ NoSignal(r) \/ ReadAwaited(r) \/ StillAwaiting(r) \/ NotAwaiting(r)
  \/ PassLimits(r) \/ Limited(r)
  \/ \E lesson \in BOOLEAN : Invoke(r, lesson)

ReviewReads(r) ==
  \/ ReadToClear(r, SessionOf(r), "unawait", "unawaiting", "limits")
  \/ ReadToNote(r) \/ ReadToQueue(r) \/ ReadToAwait(r)

ShowReads(x) ==
  \/ ReadCandidate(x)
  \/ ReadToClear(x, SessionOf(shown[x]), "clear", "clearing", "drop")
  \/ ReadToDrop(x)

Passive(p) ==
  \/ p \in Reviews /\ (Walks(p) \/ ReviewReads(p))
  \/ p \in Shows /\ ShowReads(p)

\* What they change.
Moved(p) ==
  /\ pc[p] \notin {"idle", "done"}
  /\ pc' = [pc EXCEPT ![p] = pc'[p]] /\ pc'[p] \in Steps \ {"idle"}
  /\ seen' \in [Reviews -> Reviews \cup {None}]
  /\ cview' = cview \/ cview' = [cview EXCEPT ![p] = counters]
  /\ qview' = qview \/ qview' = [qview EXCEPT ![p] = pending]
  /\ pc'[p] \in Copying => cview' = [cview EXCEPT ![p] = counters]
  /\ pc'[p] \in Listing => qview' = [qview EXCEPT ![p] = pending]
  /\ p \in Reviews => /\ pc[p] \in Later <=> pc'[p] \in Later
                      /\ pc'[p] \in {"await", "awaiting", "wake"} => pc[p] = "await"
                      /\ pc'[p] # "discard"
  /\ UNCHANGED <<now, counters, pending, live, turns, args, faults, history>>

LEMMA WalksChange ==
  ASSUME Typed, NEW r \in Reviews, Walks(r)
  PROVE  /\ Moved(r) /\ UNCHANGED views
         /\ pc[r] \notin Later /\ pc'[r] \notin Copying \cup Listing \cup Later
<1> DEFINE Goal == Moved(r) /\ UNCHANGED views
                   /\ pc[r] \notin Later /\ pc'[r] \notin Copying \cup Listing \cup Later
<1> r \in Procs /\ pc \in [Procs -> Steps] /\ seen \in [Reviews -> Reviews \cup {None}]
  BY DEF Typed, Locals, Procs
<1>1. CASE NoSignal(r)
  BY <1>1 DEF NoSignal, Steps, Copying, Listing, Later, Moved, views
<1>2. CASE ReadAwaited(r)
  <2>1. pc[r] = "awaited"
    BY <1>2 DEF ReadAwaited, Goto
  <2>2. counters.awaiting[SessionOf(r)] \in Reviews \cup {None}
    BY <2>1, AwaitedIsReview DEF Typed, At, Turn, SessionOf
  <2> QED
    BY <1>2, <2>2 DEF ReadAwaited, Goto, Steps, Copying, Listing, Later, Moved, views
<1>3. CASE StillAwaiting(r)
  BY <1>3 DEF StillAwaiting, Goto, Steps, Copying, Listing, Later, Moved, views
<1>4. CASE NotAwaiting(r)
  BY <1>4 DEF NotAwaiting, Goto, Steps, Copying, Listing, Later, Moved, views
<1>5. CASE PassLimits(r)
  BY <1>5 DEF PassLimits, Goto, Steps, Copying, Listing, Later, Moved, views
<1>6. CASE Limited(r)
  BY <1>6 DEF Limited, Goto, Steps, Copying, Listing, Later, Moved, views
<1>7. ASSUME NEW lesson \in BOOLEAN, Invoke(r, lesson)
      PROVE  Goal
  BY <1>7 DEF Invoke, Goto, Steps, Copying, Listing, Later, Moved, views
<1> QED
  BY <1>1, <1>2, <1>3, <1>4, <1>5, <1>6, <1>7 DEF Walks

LEMMA ReviewReadsChange ==
  ASSUME Typed, NEW r \in Reviews, ReviewReads(r)
  PROVE  Moved(r) /\ UNCHANGED seen
<1> r \in Procs /\ pc \in [Procs -> Steps] /\ seen \in [Reviews -> Reviews \cup {None}]
  BY DEF Typed, Locals, Procs
<1>1. CASE ReadToClear(r, SessionOf(r), "unawait", "unawaiting", "limits")
  BY <1>1 DEF ReadToClear, ReadCounters, Goto, Steps, Copying, Listing, Later, Moved, views
<1>2. CASE ReadToNote(r)
  BY <1>2 DEF ReadToNote, ReadCounters, Goto, Steps, Copying, Listing, Later, Moved
<1>3. CASE ReadToQueue(r)
  BY <1>3 DEF ReadToQueue, ReadQueue, Goto, Steps, Copying, Listing, Later, Moved
<1>4. CASE ReadToAwait(r)
  BY <1>4 DEF ReadToAwait, ReadCounters, Goto, Steps, Copying, Listing, Later, Moved
<1> QED
  BY <1>1, <1>2, <1>3, <1>4 DEF ReviewReads

LEMMA ShowReadsChange ==
  ASSUME Typed, NEW x \in Shows, ShowReads(x)
  PROVE  Moved(x) /\ UNCHANGED seen
<1> x \in Procs /\ pc \in [Procs -> Steps] /\ seen \in [Reviews -> Reviews \cup {None}]
  BY DEF Typed, Locals, Procs
<1> x \notin Reviews
  BY ConstantsAssumption
<1>1. CASE ReadCandidate(x)
  BY <1>1 DEF ReadCandidate, Goto, Steps, Copying, Listing, Later, Moved, views
<1>2. CASE ReadToClear(x, SessionOf(shown[x]), "clear", "clearing", "drop")
  BY <1>2 DEF ReadToClear, ReadCounters, Goto, Steps, Copying, Listing, Later, Moved, views
<1>3. CASE ReadToDrop(x)
  BY <1>3 DEF ReadToDrop, ReadQueue, Goto, Steps, Copying, Listing, Later, Moved
<1> QED
  BY <1>1, <1>2, <1>3 DEF ShowReads

LEMMA PassiveChange ==
  ASSUME Typed, NEW p \in Procs, Passive(p)
  PROVE  Moved(p)
BY WalksChange, ReviewReadsChange, ShowReadsChange DEF Passive

\* What the others hold stays, when only one process moves and nothing stored
\* is taken away.
LEMMA OthersKept ==
  ASSUME Typed, NEW p \in Procs, pc' = [pc EXCEPT ![p] = pc'[p]],
         \A q \in Procs \ {p} : /\ cview'[q] = cview[q] /\ qview'[q] = qview[q]
                                /\ q \in Reviews => event'[q] = event[q]
                                /\ q \in Shows => shown'[q] = shown[q],
         stored \subseteq stored', stored' \ stored \subseteq {p},
         At(p)'
  PROVE  \A q \in Procs : At(q)'
BY DEF Typed, Locals, At

LEMMA MovedTyped ==
  ASSUME Typed, NEW p \in Procs, Moved(p)
  PROVE  Typed'
<1> USE DEF Moved
<1>1. Shared'
  BY DEF Typed, Shared, Marked, history, Queued
<1>2. Locals'
  BY ZenonT(60) DEF Typed, Shared, Locals, args
<1>3. At(p)'
  <2>1. /\ pc[p] # "idle" /\ pc'[p] # "idle"
        /\ stored' = stored /\ event' = event /\ shown' = shown
    BY DEF args, history
  <2>2. pc'[p] \in Copying => cview'[p] = counters
    BY DEF Typed, Locals
  <2>3. qview'[p] = qview[p] \/ qview'[p] = pending
    BY DEF Typed, Locals
  <2>4. p \in Reviews /\ pc[p] \in Later <=> p \in Reviews /\ pc'[p] \in Later
    OBVIOUS
  <2>5. p \in Reviews /\ p \in stored => pc[p] \in Later
    BY DEF Typed, At
  <2> QED
    BY <2>1, <2>2, <2>3, <2>4, <2>5 DEF Typed, Shared, At, Queued
<1>4. \A q \in Procs : At(q)'
  BY <1>3, OthersKept DEF args, history, Typed, Locals
<1> QED
  BY <1>1, <1>2, <1>4 DEF Typed

-----------------------------------------------------------------------------

LEMMA StopTyped ==
  ASSUME Typed, NEW r \in Reviews, NEW s \in Sessions, NEW k \in Signals, Stop(r, s, k)
  PROVE  Typed'
<1>1. /\ pc[r] = "idle" /\ pc' = [pc EXCEPT ![r] = "awaited"]
      /\ event' = [event EXCEPT ![r] = [session |-> s, signal |-> k]]
      /\ turns' = turns \cup {r}
      /\ UNCHANGED <<now, counters, pending, live, shown, seen, views, faults, history>>
  BY DEF Stop, Goto
<1>2. r \in Procs /\ r \notin Shows
  BY ConstantsAssumption DEF Procs
<1>3. Shared'
  BY <1>1 DEF Typed, Shared, Marked, history, Queued
<1>4. Locals'
  <2>1. [session |-> s, signal |-> k] \in Turn
    BY DEF Turn
  <2> QED
    BY <1>1, <1>2, <2>1 DEF Typed, Locals, views, Steps
<1>5. At(r)'
  <2>1. event'[r] \in Turn
    <3>1. [session |-> s, signal |-> k] \in Turn
      BY DEF Turn
    <3> QED
      BY <1>1, <3>1 DEF Typed, Locals
  <2>2. r \notin stored /\ stored' = stored
    BY <1>1, <1>2 DEF Typed, At, Later, history
  <2>3. pc'[r] = "awaited" /\ qview'[r] = qview[r]
    BY <1>1, <1>2 DEF Typed, Locals, views
  <2> QED
    BY <1>2, <2>1, <2>2, <2>3 DEF Typed, At, Queued, Copying, Later
<1>6. \A q \in Procs : At(q)'
  BY <1>1, <1>2, <1>5, OthersKept DEF views, history, Typed, Locals
<1> QED
  BY <1>3, <1>4, <1>6 DEF Typed

LEMMA ShowTyped ==
  ASSUME Typed, NEW x \in Shows, NEW c \in Askable, Show(x, c)
  PROVE  Typed'
<1>1. /\ pc[x] = "idle" /\ pc' = [pc EXCEPT ![x] = "show"]
      /\ shown' = [shown EXCEPT ![x] = c]
      /\ UNCHANGED <<now, counters, pending, live, turns, event, seen, views, faults, history>>
  BY DEF Show, Goto
<1>2. x \in Procs /\ x \notin Reviews
  BY ConstantsAssumption DEF Procs
<1>3. c \in stored /\ c \in Reviews
  BY DEF Askable, Typed, Shared
<1>4. Shared'
  BY <1>1 DEF Typed, Shared, Marked, history, Queued
<1>5. Locals'
  BY <1>1, <1>2, <1>3 DEF Typed, Locals, views, Steps
<1>6. At(x)'
  BY <1>1, <1>2, <1>3 DEF Typed, Locals, At, views, history, Queued, Copying, Later
<1>7. \A q \in Procs : At(q)'
  BY <1>1, <1>2, <1>6, OthersKept DEF views, history, Typed, Locals
<1> QED
  BY <1>4, <1>5, <1>7 DEF Typed

\* Writing a file back ends the copy.
LEMMA ForgetTyped ==
  ASSUME Typed, NEW p \in Procs, Forget(p)
  PROVE  /\ cview' \in [Procs -> Counters \cup {None}] /\ qview' \in [Procs -> Seq(Reviews)]
         /\ Len(qview'[p]) = 0 /\ Queued(qview'[p]) = {}
         /\ \A q \in Procs \ {p} : cview'[q] = cview[q] /\ qview'[q] = qview[q]
<1>1. <<>> \in Seq(Reviews) /\ Len(<<>>) = 0
  OBVIOUS
<1>2. Queued(<<>>) = {}
  BY DEF Queued
<1> QED
  BY <1>1, <1>2 DEF Forget, Typed, Locals

\* The steps that write counters.json: what they write, and what they change.
WritesCounters(p, c) ==
  /\ pc[p] \in Copying
  /\ pc' = [pc EXCEPT ![p] = pc'[p]] /\ pc'[p] \in Steps \ (Copying \cup {"idle"})
  /\ p \in Reviews => (pc[p] \in Later <=> pc'[p] \in Later)
  /\ counters' = c /\ c \in Counters
  /\ Forget(p)
  /\ billed \subseteq billed' /\ billed' \subseteq [review : Reviews, day : Nat]
  /\ lifted \subseteq lifted' /\ lifted' \subseteq Reviews
  /\ Marked' /\ amid'["queued"] = amid["queued"]
  /\ UNCHANGED <<now, pending, live, turns, args, seen, faults, stored, woken, presented,
                 evicted>>

\* A flag is up for reviews only.
LEMMA FlagsType ==
  ASSUME NEW k \in Counters
  PROVE  Flags(k) \subseteq Reviews
BY DEF Flags, Counters

LEMMA LiftChange ==
  ASSUME Typed, NEW k \in Counters, NEW d, Lift(k, d)
  PROVE  lifted \subseteq lifted' /\ lifted' \subseteq Reviews
BY FlagsType DEF Lift, Typed, Shared

\* Whoever is midway, only r is marked, and only of the one kind.
LEMMA AmidChange ==
  ASSUME Typed, NEW r \in Reviews, NEW what \in Kinds, NEW others, Amid(r, what, others)
  PROVE  /\ Marked'
         /\ \A w \in Kinds : amid[w] \subseteq amid'[w] /\ (w # what => amid'[w] = amid[w])
         /\ amid'[what] = amid[what] \/ amid'[what] = amid[what] \cup {r}
         /\ others # {} => r \in amid'[what]
BY DEF Amid, Marked, Typed, Shared

LEMMA WritesCountersTyped ==
  ASSUME Typed, NEW p \in Procs, NEW c, WritesCounters(p, c)
  PROVE  Typed'
<1> USE DEF WritesCounters
<1>1. pc[p] \notin {"idle", "done"}
  BY DEF Copying
<1>2. Shared'
  BY DEF Typed, Shared, Queued
<1>3. Locals'
  BY ForgetTyped DEF Typed, Locals, args
<1>4. At(p)'
  <2>1. QueueMax \in Nat
    BY ConstantsAssumption
  <2> QED
    BY <1>1, <2>1, ForgetTyped DEF Typed, Locals, At, args, Queued
<1>5. \A q \in Procs : At(q)'
  BY <1>4, ForgetTyped, OthersKept DEF args, Typed, Locals
<1> QED
  BY <1>2, <1>3, <1>5 DEF Typed

LEMMA ClearedChange ==
  ASSUME Typed, NEW p \in Procs, NEW s \in Sessions, NEW from, NEW to,
         WriteCleared(p, s, from, to),
         \/ from = "unawaiting" /\ to = "limits" /\ p \in Reviews
         \/ from = "clearing" /\ to = "drop" /\ p \in Shows
  PROVE  /\ WritesCounters(p, [cview[p] EXCEPT !.awaiting[s] = None])
         /\ billed' = billed /\ amid' = amid
<1>1. pc[p] = from /\ pc' = [pc EXCEPT ![p] = to] /\ pc'[p] = to
  BY DEF WriteCleared, Goto, Typed, Locals
<1>2. cview[p] \in Counters
  BY <1>1 DEF Typed, At, Copying
<1>3. [cview[p] EXCEPT !.awaiting[s] = None] \in Counters
  BY <1>2, FlagProperties
<1>4. p \in Reviews => from = "unawaiting"
  BY ConstantsAssumption
<1>5. lifted \subseteq lifted' /\ lifted' \subseteq Reviews
  BY <1>2, LiftChange DEF WriteCleared, Typed, Shared
<1>6. Marked'
  BY DEF WriteCleared, Marked, Typed, Shared
<1> QED
  BY <1>1, <1>3, <1>4, <1>5, <1>6
  DEF WriteCleared, WritesCounters, Copying, Later, Steps, Typed, Shared

LEMMA WriteNotedChange ==
  ASSUME Typed, NEW r \in Reviews, WriteNoted(r)
  PROVE  WritesCounters(r, Noted(cview[r]))
<1>1. pc[r] = "noting" /\ pc' = [pc EXCEPT ![r] = "invoke"] /\ pc'[r] = "invoke"
  BY DEF WriteNoted, Goto, Typed, Locals, Procs
<1>2. now \in Nat /\ Day(now) \in Nat
  BY DayProperties DEF Typed, Shared
<1>3. cview[r] \in Counters
  BY <1>1 DEF Typed, At, Copying, Procs
<1>4. Noted(cview[r]) \in Counters
  BY <1>2, <1>3, NotedProperties
<1>5. billed \subseteq billed' /\ billed' \subseteq [review : Reviews, day : Nat]
  BY <1>2 DEF WriteNoted, Typed, Shared
<1>6. lifted \subseteq lifted' /\ lifted' \subseteq Reviews
  BY <1>3, LiftChange DEF WriteNoted
<1>7. Marked' /\ amid'["queued"] = amid["queued"]
  BY AmidChange DEF WriteNoted, Kinds
<1> QED
  BY <1>1, <1>4, <1>5, <1>6, <1>7 DEF WriteNoted, WritesCounters, Copying, Later, Steps

LEMMA WriteAwaitingChange ==
  ASSUME Typed, NEW r \in Reviews, WriteAwaiting(r)
  PROVE  /\ WritesCounters(r, [cview[r] EXCEPT !.awaiting[SessionOf(r)] = r])
         /\ billed' = billed /\ amid'["noted"] = amid["noted"]
<1>1. pc[r] = "awaiting" /\ pc' = [pc EXCEPT ![r] = "wake"] /\ pc'[r] = "wake"
  BY DEF WriteAwaiting, Goto, Typed, Locals, Procs
<1>2. cview[r] \in Counters /\ SessionOf(r) \in Sessions
  BY <1>1 DEF Typed, At, Copying, Procs, SessionOf, Turn
<1>3. [cview[r] EXCEPT !.awaiting[SessionOf(r)] = r] \in Counters
  BY <1>2, FlagProperties
<1>4. lifted \subseteq lifted' /\ lifted' \subseteq Reviews
  BY <1>2, LiftChange DEF WriteAwaiting
<1>5. Marked' /\ amid'["queued"] = amid["queued"] /\ amid'["noted"] = amid["noted"]
  BY AmidChange DEF WriteAwaiting, Kinds
<1> QED
  BY <1>1, <1>3, <1>4, <1>5 DEF WriteAwaiting, WritesCounters, Copying, Later, Steps, Typed, Shared

LEMMA StoreCandidateTyped ==
  ASSUME Typed, NEW r \in Reviews, StoreCandidate(r)
  PROVE  Typed'
<1>1. /\ pc[r] = "store" /\ pc' = [pc EXCEPT ![r] = "queue"] /\ pc'[r] = "queue"
      /\ live' = live \cup {r} /\ stored' = stored \cup {r}
      /\ UNCHANGED <<now, counters, pending, turns, args, seen, views, faults, billed,
                     woken, presented, evicted, lifted, amid>>
  BY DEF StoreCandidate, Goto, Typed, Locals, Procs
<1>2. r \in Procs /\ r \notin Shows
  BY ConstantsAssumption DEF Procs
<1>3. Shared'
  BY <1>1 DEF Typed, Shared, Marked, Queued
<1>4. Locals'
  BY <1>1, <1>2 DEF Typed, Locals, args, views, Steps
<1>5. At(r)'
  BY <1>1, <1>2 DEF Typed, Locals, At, args, views, Queued, Copying, Later
<1>6. \A q \in Procs : At(q)'
  BY <1>1, <1>2, <1>5, OthersKept DEF args, views, Typed, Locals
<1> QED
  BY <1>3, <1>4, <1>6 DEF Typed

LEMMA WriteQueuedChange ==
  ASSUME Typed, NEW r \in Reviews, WriteQueued(r)
  PROVE  /\ pc[r] = "queueing" /\ pc' = [pc EXCEPT ![r] = "discard"] /\ pc'[r] = "discard"
         /\ pending' \in Seq(Reviews) /\ Len(pending') <= QueueMax
         /\ r \in Queued(pending')
         /\ Queued(pending') \subseteq Queued(qview[r]) \cup {r}
         /\ evicted' \subseteq evicted \cup Queued(qview[r]) \cup {r}
         /\ (Queued(qview[r]) \cup {r}) \ Queued(pending') \subseteq evicted'
         /\ evicted \subseteq evicted'
         /\ Forget(r)
         /\ Marked' /\ amid'["noted"] = amid["noted"] /\ amid'["flagged"] = amid["flagged"]
         /\ amid["queued"] \subseteq amid'["queued"]
         /\ Others(r, Listing) # {} => r \in amid'["queued"]
         /\ UNCHANGED <<now, counters, live, turns, args, seen, faults, billed, stored,
                        woken, presented, lifted>>
<1> DEFINE w == Without(qview[r], r)
           q == Append(w, r)
<1>1. /\ pc[r] = "queueing" /\ pc' = [pc EXCEPT ![r] = "discard"] /\ pc'[r] = "discard"
      /\ pending' = Newest(q) /\ evicted' = evicted \cup (Queued(q) \ Queued(Newest(q)))
      /\ Forget(r)
      /\ UNCHANGED <<now, counters, live, turns, args, seen, faults, billed, stored,
                     woken, presented, lifted>>
  BY DEF WriteQueued, Goto, Typed, Locals, Procs
<1>2. qview[r] \in Seq(Reviews)
  BY DEF Typed, Locals, Procs
<1>3. w \in Seq(Reviews) /\ Queued(w) = Queued(qview[r]) \ {r}
  BY <1>2, WithoutProperties
<1> HIDE DEF w
<1>4. q \in Seq(Reviews) /\ Queued(q) = Queued(w) \cup {r}
  BY <1>3, QueuedAppend
<1>5. /\ Newest(q) \in Seq(Reviews) /\ Len(Newest(q)) <= QueueMax
      /\ Queued(Newest(q)) \subseteq Queued(q) /\ r \in Queued(Newest(q))
  BY <1>3, NewestProperties
<1> HIDE DEF q
<1>6. /\ Marked' /\ amid'["noted"] = amid["noted"] /\ amid'["flagged"] = amid["flagged"]
      /\ amid["queued"] \subseteq amid'["queued"]
      /\ Others(r, Listing) # {} => r \in amid'["queued"]
  BY AmidChange DEF WriteQueued, Kinds
<1> QED
  BY <1>1, <1>3, <1>4, <1>5, <1>6

LEMMA WriteQueuedTyped ==
  ASSUME Typed, NEW r \in Reviews, WriteQueued(r)
  PROVE  Typed'
<1>1. /\ pc[r] = "queueing" /\ pc' = [pc EXCEPT ![r] = "discard"] /\ pc'[r] = "discard"
      /\ pending' \in Seq(Reviews) /\ Len(pending') <= QueueMax
      /\ Queued(pending') \subseteq Queued(qview[r]) \cup {r}
      /\ evicted' \subseteq evicted \cup Queued(qview[r]) \cup {r}
      /\ Forget(r) /\ Marked'
      /\ UNCHANGED <<now, counters, live, turns, args, seen, faults, billed, stored,
                     woken, presented, lifted>>
  BY WriteQueuedChange
<1>2. r \in Procs /\ r \notin Shows /\ QueueMax \in Nat
  BY ConstantsAssumption DEF Procs
<1>3. r \in stored /\ Queued(qview[r]) \subseteq stored
  BY <1>1, <1>2 DEF Typed, At, Later
<1>4. Queued(pending)' = Queued(pending')
  BY DEF Queued
<1>5. Shared'
  BY <1>1, <1>3, <1>4 DEF Typed, Shared
<1>6. Locals'
  BY <1>1, <1>2, ForgetTyped DEF Typed, Locals, args, Steps
<1>7. At(r)'
  BY <1>1, <1>2, <1>3, ForgetTyped DEF Typed, Locals, At, args, Queued, Copying, Later
<1>8. \A q \in Procs : At(q)'
  BY <1>1, <1>2, <1>7, ForgetTyped, OthersKept DEF args
<1> QED
  BY <1>5, <1>6, <1>8 DEF Typed

LEMMA DiscardTurnChange ==
  ASSUME Typed, NEW r \in Reviews, DiscardTurn(r)
  PROVE  /\ \/ pc[r] = "discard" /\ pc'[r] = "await"
            \/ pc[r] = "discardlast" /\ pc'[r] = "done"
         /\ pc' = [pc EXCEPT ![r] = pc'[r]]
         /\ turns' = turns \ {r}
         /\ UNCHANGED <<now, counters, pending, live, args, seen, views, faults, history>>
BY DEF DiscardTurn, Goto, Typed, Locals, Procs

LEMMA DiscardTurnTyped ==
  ASSUME Typed, NEW r \in Reviews, DiscardTurn(r)
  PROVE  Typed'
<1>1. /\ \/ pc[r] = "discard" /\ pc'[r] = "await"
         \/ pc[r] = "discardlast" /\ pc'[r] = "done"
      /\ pc' = [pc EXCEPT ![r] = pc'[r]]
      /\ turns' = turns \ {r}
      /\ UNCHANGED <<now, counters, pending, live, args, seen, views, faults, history>>
  BY DiscardTurnChange
<1>2. r \in Procs /\ r \notin Shows
  BY ConstantsAssumption DEF Procs
<1>3. Shared'
  BY <1>1 DEF Typed, Shared, Marked, history, Queued
<1>4. Locals'
  BY <1>1, <1>2 DEF Typed, Locals, args, views, Steps
<1>5. At(r)'
  BY <1>1, <1>2 DEF Typed, Locals, At, args, views, history, Queued, Copying, Later
<1>6. \A q \in Procs : At(q)'
  BY <1>1, <1>2, <1>5, OthersKept DEF args, views, history, Typed, Locals
<1> QED
  BY <1>3, <1>4, <1>6 DEF Typed

LEMMA WakeTyped ==
  ASSUME Typed, NEW r \in Reviews, Wake(r)
  PROVE  Typed'
<1>1. /\ pc[r] = "wake" /\ pc' = [pc EXCEPT ![r] = "done"] /\ pc'[r] = "done"
      /\ woken' = woken \cup {r}
      /\ UNCHANGED <<now, counters, pending, live, turns, args, seen, views, faults, billed,
                     stored, presented, evicted, lifted, amid>>
  BY DEF Wake, Goto, Typed, Locals, Procs
<1>2. r \in Procs /\ r \notin Shows
  BY ConstantsAssumption DEF Procs
<1>3. r \in stored
  BY <1>1, <1>2 DEF Typed, At, Later
<1>4. Shared'
  BY <1>1, <1>3 DEF Typed, Shared, Marked, Queued
<1>5. Locals'
  BY <1>1, <1>2 DEF Typed, Locals, args, views, Steps
<1>6. At(r)'
  BY <1>1, <1>2 DEF Typed, Locals, At, args, views, Queued, Copying, Later
<1>7. \A q \in Procs : At(q)'
  BY <1>1, <1>2, <1>6, OthersKept DEF args, views, Typed, Locals
<1> QED
  BY <1>4, <1>5, <1>7 DEF Typed

LEMMA WriteDroppedChange ==
  ASSUME Typed, NEW x \in Shows, WriteDropped(x)
  PROVE  /\ pc[x] = "dropping" /\ pc' = [pc EXCEPT ![x] = "done"] /\ pc'[x] = "done"
         /\ shown[x] \in stored
         /\ pending' \in Seq(Reviews) /\ Len(pending') <= QueueMax
         /\ Queued(pending') = Queued(qview[x]) \ {shown[x]}
         /\ presented' = presented \cup {shown[x]}
         /\ Forget(x)
         /\ UNCHANGED <<now, counters, live, turns, args, seen, faults, billed, stored,
                        woken, evicted, lifted, amid>>
<1> DEFINE w == Without(qview[x], shown[x])
<1>1. /\ pc[x] = "dropping" /\ pc' = [pc EXCEPT ![x] = "done"] /\ pc'[x] = "done"
      /\ pending' = w
      /\ presented' = presented \cup {shown[x]}
      /\ Forget(x)
      /\ UNCHANGED <<now, counters, live, turns, args, seen, faults, billed, stored,
                     woken, evicted, lifted, amid>>
  BY DEF WriteDropped, Goto, Typed, Locals, Procs
<1>2. qview[x] \in Seq(Reviews) /\ Len(qview[x]) <= QueueMax
  BY DEF Typed, Locals, At, Procs
<1>3. w \in Seq(Reviews) /\ Len(w) <= Len(qview[x]) /\ Queued(w) = Queued(qview[x]) \ {shown[x]}
  BY <1>2, WithoutProperties
<1>4. shown[x] \in stored
  BY <1>1 DEF Typed, At, Procs
<1>5. Len(w) <= QueueMax
  <2> HIDE DEF w
  <2> QED
    BY <1>2, <1>3, ConstantsAssumption
<1> HIDE DEF w
<1> QED
  BY <1>1, <1>3, <1>4, <1>5

LEMMA WriteDroppedTyped ==
  ASSUME Typed, NEW x \in Shows, WriteDropped(x)
  PROVE  Typed'
<1>1. /\ pc[x] = "dropping" /\ pc' = [pc EXCEPT ![x] = "done"] /\ pc'[x] = "done"
      /\ shown[x] \in stored
      /\ pending' \in Seq(Reviews) /\ Len(pending') <= QueueMax
      /\ Queued(pending') = Queued(qview[x]) \ {shown[x]}
      /\ presented' = presented \cup {shown[x]}
      /\ Forget(x)
      /\ UNCHANGED <<now, counters, live, turns, args, seen, faults, billed, stored,
                     woken, evicted, lifted, amid>>
  BY WriteDroppedChange
<1>2. x \in Procs /\ x \notin Reviews /\ QueueMax \in Nat
  BY ConstantsAssumption DEF Procs
<1>3. Queued(qview[x]) \subseteq stored
  BY <1>2 DEF Typed, At
<1>4. Queued(pending)' = Queued(pending')
  BY DEF Queued
<1>5. Shared'
  BY <1>1, <1>3, <1>4 DEF Typed, Shared, Marked
<1>6. Locals'
  BY <1>1, <1>2, ForgetTyped DEF Typed, Locals, args, Steps
<1>7. At(x)'
  BY <1>1, <1>2, ForgetTyped DEF Typed, Locals, At, args, Queued, Copying, Later
<1>8. \A q \in Procs : At(q)'
  BY <1>1, <1>2, <1>7, ForgetTyped, OthersKept DEF args
<1> QED
  BY <1>5, <1>6, <1>8 DEF Typed

\* The session of a candidate, and of a process that clears a flag.
LEMMA StoredSession ==
  ASSUME Typed, NEW r \in stored
  PROVE  r \in Reviews /\ event[r] \in Turn /\ SessionOf(r) \in Sessions /\ pc[r] # "idle"
BY DEF Typed, Shared, At, Procs, Later, Turn, SessionOf

ClearsFlag(p) ==
  \/ p \in Reviews /\ WriteCleared(p, SessionOf(p), "unawaiting", "limits")
  \/ p \in Shows /\ WriteCleared(p, SessionOf(shown[p]), "clearing", "drop")

Cleared(p) == IF p \in Reviews THEN SessionOf(p) ELSE SessionOf(shown[p])

LEMMA ClearsFlagChange ==
  ASSUME Typed, NEW p \in Procs, ClearsFlag(p)
  PROVE  /\ Cleared(p) \in Sessions
         /\ WritesCounters(p, [cview[p] EXCEPT !.awaiting[Cleared(p)] = None])
         /\ billed' = billed /\ amid' = amid
         /\ \/ p \in Reviews /\ pc[p] = "unawaiting" /\ pc'[p] = "limits"
            \/ p \in Shows /\ pc[p] = "clearing" /\ pc'[p] = "drop"
<1>1. CASE p \in Reviews /\ WriteCleared(p, SessionOf(p), "unawaiting", "limits")
  <2>1. pc[p] = "unawaiting" /\ pc'[p] = "limits"
    BY <1>1 DEF WriteCleared, Goto, Typed, Locals
  <2>2. SessionOf(p) \in Sessions
    BY <1>1, <2>1 DEF Typed, At, Turn, SessionOf
  <2> QED
    BY <1>1, <2>1, <2>2, ClearedChange DEF Cleared
<1>2. CASE p \in Shows /\ WriteCleared(p, SessionOf(shown[p]), "clearing", "drop")
  <2>1. pc[p] = "clearing" /\ pc'[p] = "drop"
    BY <1>2 DEF WriteCleared, Goto, Typed, Locals
  <2>2. SessionOf(shown[p]) \in Sessions
    BY <1>2, <2>1, StoredSession DEF Typed, At
  <2>3. p \notin Reviews
    BY <1>2, ConstantsAssumption
  <2> QED
    BY <1>2, <2>1, <2>2, <2>3, ClearedChange DEF Cleared
<1> QED
  BY <1>1, <1>2 DEF ClearsFlag

\* Time, expiry and kills.
LEMMA TickTyped ==
  ASSUME Typed, Tick
  PROVE  Typed'
<1>1. /\ now' = now + 1 /\ now < MaxTime
      /\ UNCHANGED <<counters, pending, live, turns, pc, args, seen, views, faults, history>>
  BY DEF Tick
<1>2. now' \in 0 .. MaxTime
  BY <1>1, ConstantsAssumption DEF Typed, Shared
<1> QED
  BY <1>1, <1>2 DEF Typed, Shared, Marked, Locals, At, args, views, history, Queued

LEMMA ExpireTyped ==
  ASSUME Typed, NEW c \in Reviews, Expire(c)
  PROVE  Typed'
<1>1. faults' \in 0 .. MaxFaults
  BY ConstantsAssumption DEF Expire, Typed, Shared
<1> QED
  BY <1>1 DEF Expire, Typed, Shared, Marked, Locals, At, args, views, history, Queued

LEMMA KillTyped ==
  ASSUME Typed, NEW p \in Procs, Kill(p)
  PROVE  Typed'
<1>1. /\ faults < MaxFaults /\ faults' = faults + 1
      /\ pc[p] \notin {"idle", "done"} /\ pc' = [pc EXCEPT ![p] = "done"] /\ pc'[p] = "done"
      /\ Forget(p)
      /\ UNCHANGED <<now, counters, pending, live, turns, args, seen, history>>
  BY DEF Kill, Running, Typed, Locals
<1>2. faults' \in 0 .. MaxFaults
  BY <1>1, ConstantsAssumption DEF Typed, Shared
<1>3. Shared'
  BY <1>1, <1>2 DEF Typed, Shared, Marked, history, Queued
<1>4. Locals'
  BY <1>1, ForgetTyped DEF Typed, Locals, args, Steps
<1>5. At(p)'
  <2>1. QueueMax \in Nat
    BY ConstantsAssumption
  <2>2. Len(qview'[p]) = 0 /\ Queued(qview'[p]) = {}
    BY <1>1, ForgetTyped
  <2>3. stored' = stored /\ event' = event /\ shown' = shown
    BY <1>1 DEF args, history
  <2> QED
    BY <1>1, <2>1, <2>2, <2>3 DEF Typed, At, Queued, Copying, Later
<1>6. \A q \in Procs : At(q)'
  BY <1>1, <1>5, ForgetTyped, OthersKept DEF args, history
<1> QED
  BY <1>3, <1>4, <1>6 DEF Typed

-----------------------------------------------------------------------------

\* A step, by what it writes.
LEMMA NextCases ==
  ASSUME Next
  PROVE  \/ \E p \in Procs : Passive(p) \/ ClearsFlag(p) \/ Kill(p)
         \/ \E r \in Reviews : \/ \E s \in Sessions, k \in Signals : Stop(r, s, k)
                               \/ WriteNoted(r) \/ StoreCandidate(r) \/ WriteQueued(r)
                               \/ DiscardTurn(r) \/ WriteAwaiting(r) \/ Wake(r)
                               \/ Expire(r)
         \/ \E x \in Shows : (\E c \in Askable : Show(x, c)) \/ WriteDropped(x)
         \/ Tick
BY DEF Next, ReviewStep, ShowStep, Passive, Walks, ReviewReads, ShowReads, ClearsFlag, Procs

LEMMA TypedNext == Typed /\ [Next]_vars => Typed'
<1> SUFFICES ASSUME Typed, [Next]_vars PROVE Typed'
  OBVIOUS
<1>1. CASE UNCHANGED vars
  BY <1>1 DEF vars, Typed, Shared, Marked, Locals, At, Queued
<1>2. ASSUME NEW p \in Procs, Passive(p) PROVE Typed'
  BY <1>2, PassiveChange, MovedTyped
<1>3. ASSUME NEW p \in Procs, ClearsFlag(p) PROVE Typed'
  BY <1>3, ClearsFlagChange, WritesCountersTyped
<1>4. ASSUME NEW r \in Reviews, WriteNoted(r) \/ WriteAwaiting(r) PROVE Typed'
  BY <1>4, WriteNotedChange, WriteAwaitingChange, WritesCountersTyped DEF Procs
<1> QED
  BY <1>1, <1>2, <1>3, <1>4, NextCases, KillTyped, StopTyped, StoreCandidateTyped,
     WriteQueuedTyped, DiscardTurnTyped, WakeTyped, ExpireTyped, ShowTyped,
     WriteDroppedTyped, TickTyped

LEMMA AlwaysTyped == Spec => []Typed
BY TypedInit, TypedNext, PTL DEF Spec

\* Every variable stays within its type.
THEOREM TypesKept == Spec => []TypeOK
<1>1. Typed => TypeOK
  BY DEF Typed, Shared, Marked, Kinds, Locals, TypeOK, Turn
<1> QED
  BY <1>1, AlwaysTyped, PTL

-----------------------------------------------------------------------------
(* What the two files refer to.                                            *)

\* What was stored stays stored, and is of the session it was of.
LEMMA StoredKept ==
  ASSUME Typed, [Next]_vars
  PROVE  stored \subseteq stored' /\ \A c \in stored : event'[c] = event[c]
<1>1. CASE UNCHANGED vars
  BY <1>1 DEF vars
<1>2. ASSUME NEW p \in Procs, Passive(p) \/ ClearsFlag(p) \/ Kill(p)
      PROVE  UNCHANGED <<stored, event>>
  BY <1>2, PassiveChange, ClearsFlagChange DEF Moved, WritesCounters, Kill, args, history
<1>3. ASSUME NEW r \in Reviews, NEW s \in Sessions, NEW k \in Signals, Stop(r, s, k)
      PROVE  stored \subseteq stored' /\ \A c \in stored : event'[c] = event[c]
  <2>1. r \notin stored
    BY <1>3, StoredSession DEF Stop, Goto
  <2> QED
    BY <1>3, <2>1 DEF Stop, history, Typed, Locals
<1>4. ASSUME NEW r \in Reviews,
             WriteNoted(r) \/ StoreCandidate(r) \/ WriteQueued(r) \/ DiscardTurn(r)
               \/ WriteAwaiting(r) \/ Wake(r) \/ Expire(r)
      PROVE  stored \subseteq stored' /\ event' = event
  BY <1>4 DEF WriteNoted, StoreCandidate, WriteQueued, DiscardTurn, WriteAwaiting, Wake, Expire,
              args, history
<1>5. ASSUME NEW x \in Shows, (\E c \in Askable : Show(x, c)) \/ WriteDropped(x)
      PROVE  UNCHANGED <<stored, event>>
  BY <1>5 DEF Show, WriteDropped, args, history
<1>6. CASE Tick
  BY <1>6 DEF Tick, args, history
<1> QED
  BY <1>1, <1>2, <1>3, <1>4, <1>5, <1>6, NextCases

\* Only the turn of a review that begins is added.
LEMMA ReferredKept ==
  ASSUME Typed, NEW c, Referred(c),
         stored \subseteq stored', \A d \in stored : event'[d] = event[d],
         turns' \cap stored \subseteq turns
  PROVE  ReferredIn(c, stored', event', turns')
BY DEF Referred, ReferredIn

LEMMA ReferringStep ==
  ASSUME Typed, Referring, [Next]_vars, NEW p \in Procs,
         pc' = [pc EXCEPT ![p] = pc'[p]],
         \A q \in Procs \ {p} : cview'[q] = cview[q],
         pc'[p] \in Copying => cview'[p] = counters,
         turns' \cap stored \subseteq turns, turns' \subseteq turns \cup {p},
         ReferredIn(counters', stored', event', turns'),
         p \in Reviews /\ pc'[p] \in {"await", "awaiting", "wake"} => p \notin turns'
  PROVE  Referring'
<1>1. stored \subseteq stored' /\ \A c \in stored : event'[c] = event[c]
  BY StoredKept
<1>2. ReferredIn(counters, stored', event', turns')
  BY <1>1, ReferredKept DEF Referring
<1>3. ASSUME NEW q \in Procs, pc'[q] \in Copying
      PROVE  ReferredIn(cview'[q], stored', event', turns')
  <2>1. CASE q = p
    BY <1>2, <1>3, <2>1
  <2>2. CASE q # p
    <3>1. Referred(cview[q]) /\ cview'[q] = cview[q]
      BY <1>3, <2>2 DEF Referring, Typed, Locals
    <3> QED
      BY <1>1, <3>1, ReferredKept
  <2> QED
    BY <2>1, <2>2
<1>4. ASSUME NEW r \in Reviews, pc'[r] \in {"await", "awaiting", "wake"}
      PROVE  r \notin turns'
  BY <1>4 DEF Referring, Typed, Locals, Procs
<1> QED
  BY <1>3, <1>4 DEF Referring, Referred

\* Each way of writing counters.json leaves flags that refer to what exists.
LEMMA FlagReferred ==
  ASSUME NEW c \in Counters, Referred(c), NEW s \in Sessions, NEW v \in Reviews \cup {None},
         v # None => v \in stored /\ SessionOf(v) = s /\ v \notin turns,
         NEW d, d = [c EXCEPT !.awaiting[s] = v]
  PROVE  Referred(d)
<1>1. d.awaiting = [c.awaiting EXCEPT ![s] = v] /\ c.awaiting \in [Sessions -> Reviews \cup {None}]
  BY FlagProperties DEF Counters
<1> QED
  BY <1>1 DEF Referred, ReferredIn, SessionOf

LEMMA NotedReferred ==
  ASSUME NEW c \in Counters, Referred(c), now \in Nat
  PROVE  Referred(Noted(c))
<1>1. Noted(c).awaiting = c.awaiting \/ Noted(c).awaiting = [s \in Sessions |-> None]
  BY NotedProperties
<1> QED
  BY <1>1 DEF Referred, ReferredIn

LEMMA WritesCountersReferring ==
  ASSUME Typed, Referring, [Next]_vars, NEW p \in Procs, NEW c, WritesCounters(p, c), Referred(c)
  PROVE  Referring'
<1>1. ReferredIn(counters', stored', event', turns')
  BY DEF WritesCounters, Referred, args
<1>2. \A q \in Procs \ {p} : cview'[q] = cview[q]
  BY ForgetTyped DEF WritesCounters
<1>3. p \in Reviews /\ pc'[p] \in {"await", "awaiting", "wake"} => p \notin turns'
  <2>1. p \in Reviews /\ pc'[p] \in Later => pc[p] = "awaiting"
    BY DEF WritesCounters, Copying, Later
  <2> QED
    BY <2>1 DEF WritesCounters, Referring, Later
<1> QED
  BY <1>1, <1>2, <1>3, ReferringStep DEF WritesCounters

LEMMA ReferringNext == Typed /\ Referring /\ [Next]_vars => Referring'
<1> SUFFICES ASSUME Typed, Referring, [Next]_vars PROVE Referring'
  OBVIOUS
<1>0. stored \subseteq stored' /\ \A c \in stored : event'[c] = event[c]
  BY StoredKept
<1>1. CASE UNCHANGED vars
  BY <1>1 DEF vars, Referring, Referred
<1>2. ASSUME NEW p \in Procs, Passive(p) PROVE Referring'
  <2>1. Moved(p)
    BY <1>2, PassiveChange
  <2>2. ReferredIn(counters', stored', event', turns')
    BY <2>1 DEF Moved, Referring, Referred, args, history
  <2>3. pc'[p] \in Copying => cview'[p] = counters
    BY <2>1 DEF Moved, Typed, Locals
  <2>4. \A q \in Procs \ {p} : cview'[q] = cview[q]
    BY <2>1 DEF Moved, Typed, Locals
  <2> QED
    BY <2>1, <2>2, <2>3, <2>4, ReferringStep DEF Moved, Referring
<1>3. ASSUME NEW p \in Procs, ClearsFlag(p) PROVE Referring'
  <2>1. /\ Cleared(p) \in Sessions /\ pc[p] \in Copying
        /\ WritesCounters(p, [cview[p] EXCEPT !.awaiting[Cleared(p)] = None])
    BY <1>3, ClearsFlagChange DEF WritesCounters
  <2>2. cview[p] \in Counters /\ Referred(cview[p])
    BY <2>1 DEF Typed, At, Referring
  <2>3. Referred([cview[p] EXCEPT !.awaiting[Cleared(p)] = None])
    BY <2>1, <2>2, FlagReferred
  <2> QED
    BY <2>1, <2>3, WritesCountersReferring
<1>4. ASSUME NEW r \in Reviews, WriteNoted(r) PROVE Referring'
  <2>1. r \in Procs /\ WritesCounters(r, Noted(cview[r])) /\ pc[r] \in Copying
    BY <1>4, WriteNotedChange DEF WritesCounters, Procs
  <2>2. cview[r] \in Counters /\ Referred(cview[r]) /\ now \in Nat
    BY <2>1 DEF Typed, Shared, At, Referring
  <2> QED
    BY <2>1, <2>2, NotedReferred, WritesCountersReferring
<1>5. ASSUME NEW r \in Reviews, WriteAwaiting(r) PROVE Referring'
  <2>1. /\ r \in Procs /\ pc[r] = "awaiting"
        /\ WritesCounters(r, [cview[r] EXCEPT !.awaiting[SessionOf(r)] = r])
    BY <1>5, WriteAwaitingChange DEF WriteAwaiting, Goto, Procs
  <2>2. cview[r] \in Counters /\ Referred(cview[r]) /\ r \in stored /\ r \notin turns
    BY <2>1 DEF Typed, At, Referring, Copying, Later
  <2>3. Referred([cview[r] EXCEPT !.awaiting[SessionOf(r)] = r])
    BY <2>2, StoredSession, FlagReferred
  <2> QED
    BY <2>1, <2>3, WritesCountersReferring
<1>6. ASSUME NEW r \in Reviews, NEW s \in Sessions, NEW k \in Signals, Stop(r, s, k)
      PROVE  Referring'
  <2>1. /\ r \in Procs /\ pc' = [pc EXCEPT ![r] = pc'[r]] /\ pc'[r] = "awaited"
        /\ turns' = turns \cup {r} /\ counters' = counters /\ cview' = cview
    BY <1>6 DEF Stop, Goto, views, Typed, Locals, Procs
  <2>2. r \notin stored
    BY <1>6, StoredSession DEF Stop, Goto
  <2>3. ReferredIn(counters', stored', event', turns')
    BY <1>0, <2>1, <2>2, ReferredKept DEF Referring
  <2> QED
    BY <2>1, <2>2, <2>3, ReferringStep DEF Copying
<1>7. ASSUME NEW r \in Reviews,
             StoreCandidate(r) \/ WriteQueued(r) \/ DiscardTurn(r) \/ Wake(r)
      PROVE  Referring'
  <2>1. /\ r \in Procs /\ pc' = [pc EXCEPT ![r] = pc'[r]] /\ counters' = counters
        /\ turns' \subseteq turns
        /\ pc'[r] \in {"queue", "discard", "await", "done"}
        /\ pc'[r] = "await" => r \notin turns'
        /\ \A q \in Procs \ {r} : cview'[q] = cview[q]
    BY <1>7 DEF StoreCandidate, WriteQueued, DiscardTurn, Wake, Goto, Forget, views, Typed,
                Locals, Procs
  <2>2. ReferredIn(counters', stored', event', turns')
    BY <1>0, <2>1, ReferredKept DEF Referring
  <2> QED
    BY <2>1, <2>2, ReferringStep DEF Copying
<1>8. ASSUME NEW p \in Procs, (p \in Shows /\ \E c \in Askable : Show(p, c))
                              \/ (p \in Shows /\ WriteDropped(p)) \/ Kill(p)
      PROVE  Referring'
  <2>1. /\ pc' = [pc EXCEPT ![p] = pc'[p]] /\ counters' = counters /\ turns' = turns
        /\ pc'[p] \in {"show", "done"}
        /\ \A q \in Procs \ {p} : cview'[q] = cview[q]
    BY <1>8 DEF Show, WriteDropped, Kill, Goto, Forget, views, Typed, Locals
  <2>2. ReferredIn(counters', stored', event', turns')
    BY <1>0, <2>1, ReferredKept DEF Referring
  <2> QED
    BY <2>1, <2>2, ReferringStep DEF Copying
<1>9. ASSUME Tick \/ \E c \in Reviews : Expire(c)
      PROVE  Referring'
  BY <1>9 DEF Tick, Expire, Referring, Referred, args, views, history
<1> QED
  BY <1>1, <1>2, <1>3, <1>4, <1>5, <1>6, <1>7, <1>8, <1>9, NextCases DEF Procs

\* Whatever overlaps, and whichever stale copy is written back last: a queued
\* candidate was stored, and a session awaits only a candidate of its own that
\* was stored and whose turn is gone.
THEOREM NothingDangles == Spec => []ReferencesStored
<1>1. Init => Referring
  BY DEF Init, Referring, Referred, ReferredIn, Copying
<1>2. Spec => []Referring
  BY <1>1, AlwaysTyped, ReferringNext, PTL DEF Spec
<1>3. Typed /\ Referring => ReferencesStored
  BY DEF Typed, Shared, Referring, Referred, ReferredIn, ReferencesStored, SessionOf
<1> QED
  BY <1>2, <1>3, AlwaysTyped, PTL

-----------------------------------------------------------------------------
(* The queue.                                                              *)

\* The queue as it is, less than it must hold, or a fresh copy of it.
LEMMA ListedStep ==
  ASSUME Typed, Listed, NEW p \in Procs,
         pc' = [pc EXCEPT ![p] = pc'[p]],
         \A q \in Procs \ {p} : qview'[q] = qview[q],
         pc'[p] \in Listing => qview'[p] = pending,
         pending' = pending, MustStay' \subseteq MustStay
  PROVE  Listed'
<1>1. ASSUME NEW q \in Procs, pc'[q] \in Listing
      PROVE  MustStay' \subseteq Queued(qview'[q])
  <2>1. CASE q = p
    BY <1>1, <2>1 DEF Listed
  <2>2. CASE q # p
    BY <1>1, <2>2 DEF Listed, Typed, Locals
  <2> QED
    BY <2>1, <2>2
<1>2. MustStay' \subseteq Queued(pending')
  BY DEF Listed
<1>3. Queued(pending)' = Queued(pending') /\ \A q \in Procs : Queued(qview[q])' = Queued(qview'[q])
  BY DEF Queued
<1> QED
  BY <1>1, <1>2, <1>3 DEF Listed

\* What the queue must hold does not grow when nobody is newly told of anything.
LEMMA MustStayKept ==
  ASSUME Typed, live' \subseteq live, woken' = woken,
         presented \subseteq presented', evicted \subseteq evicted',
         amid["queued"] \subseteq amid'["queued"],
         \A c \in live : pc'[c] \in {"discard", "await", "awaiting", "wake"} => Told(c)
  PROVE  MustStay' \subseteq MustStay
BY DEF MustStay, Told

LEMMA ListedNext == Typed /\ Listed /\ [Next]_vars => Listed'
<1> SUFFICES ASSUME Typed, Listed, [Next]_vars PROVE Listed'
  OBVIOUS
<1>0. \A c \in live : c \in Reviews /\ c \in Procs
  BY DEF Typed, Shared, Procs
<1>1. ASSUME UNCHANGED vars \/ Tick \/ \E c \in Reviews : Expire(c)
      PROVE  Listed'
  <2>1. /\ UNCHANGED <<pc, pending, qview, woken, presented, evicted, amid>> /\ live' \subseteq live
    BY <1>1 DEF vars, Tick, Expire, views, history
  <2>2. MustStay' \subseteq MustStay
    BY <2>1 DEF MustStay, Told
  <2> QED
    BY <2>1, <2>2 DEF Listed, Queued
<1>2. ASSUME NEW p \in Procs, Passive(p) PROVE Listed'
  <2>1. Moved(p)
    BY <1>2, PassiveChange
  <2>2. p \in Reviews /\ pc'[p] \in {"discard", "await", "awaiting", "wake"} => Told(p)
    BY <2>1 DEF Moved, Told
  <2>3. MustStay' \subseteq MustStay
    BY <1>0, <2>1, <2>2, MustStayKept DEF Moved, history, Told, Typed, Locals
  <2>4. pc'[p] \in Listing => qview'[p] = pending
    BY <2>1 DEF Moved, Typed, Locals
  <2>5. \A q \in Procs \ {p} : qview'[q] = qview[q]
    BY <2>1 DEF Moved, Typed, Locals
  <2> QED
    BY <2>1, <2>3, <2>4, <2>5, ListedStep DEF Moved
<1>3. ASSUME NEW p \in Procs, NEW c, WritesCounters(p, c), pc'[p] \notin Listing,
             pc'[p] = "wake" => Told(p), pc'[p] \notin {"discard", "await", "awaiting"}
      PROVE  Listed'
  <2>1. MustStay' \subseteq MustStay
    BY <1>0, <1>3, MustStayKept DEF WritesCounters, Told, Typed, Locals
  <2>2. \A q \in Procs \ {p} : qview'[q] = qview[q]
    BY <1>3, ForgetTyped DEF WritesCounters
  <2> QED
    BY <1>3, <2>1, <2>2, ListedStep DEF WritesCounters
<1>4. ASSUME NEW p \in Procs, ClearsFlag(p) PROVE Listed'
  BY <1>3, <1>4, ClearsFlagChange DEF Listing
<1>5. ASSUME NEW r \in Reviews, WriteNoted(r) \/ WriteAwaiting(r) PROVE Listed'
  <2>1. /\ r \in Procs
        /\ pc'[r] = "invoke" \/ (pc[r] = "awaiting" /\ pc'[r] = "wake")
    BY <1>5 DEF WriteNoted, WriteAwaiting, Goto, Typed, Locals, Procs
  <2>2. \E c : WritesCounters(r, c)
    BY <1>5, WriteNotedChange, WriteAwaitingChange
  <2> QED
    BY <1>3, <2>1, <2>2 DEF Listing, Told
<1>6. ASSUME NEW p \in Procs, UNCHANGED <<qview, pending, history>>, live' = live,
             pc' = [pc EXCEPT ![p] = pc'[p]], pc'[p] \notin Listing,
             p \in live /\ pc'[p] \in {"discard", "await", "awaiting", "wake"} => Told(p)
      PROVE  Listed'
  <2>1. MustStay' \subseteq MustStay
    BY <1>0, <1>6, MustStayKept DEF history, Told, Typed, Locals
  <2> QED
    BY <1>6, <2>1, ListedStep
<1>7. ASSUME NEW r \in Reviews, (\E s \in Sessions, k \in Signals : Stop(r, s, k)) \/ DiscardTurn(r)
      PROVE  Listed'
  <2>1. /\ r \in Procs /\ pc' = [pc EXCEPT ![r] = pc'[r]]
        /\ pc'[r] \in {"awaited", "done"} \/ (pc[r] = "discard" /\ pc'[r] = "await")
        /\ UNCHANGED <<qview, pending, history>> /\ live' = live
    BY <1>7 DEF Stop, DiscardTurn, Goto, views, Typed, Locals, Procs
  <2> QED
    BY <1>6, <2>1 DEF Listing, Told
<1>8. ASSUME NEW x \in Shows, \E c \in Askable : Show(x, c) PROVE Listed'
  <2>1. /\ x \in Procs /\ pc' = [pc EXCEPT ![x] = pc'[x]] /\ pc'[x] = "show"
        /\ UNCHANGED <<qview, pending, history>> /\ live' = live
    BY <1>8 DEF Show, Goto, views, Typed, Locals, Procs
  <2> QED
    BY <1>6, <2>1 DEF Listing
<1>9. ASSUME NEW r \in Reviews, StoreCandidate(r) PROVE Listed'
  <2>1. /\ pc[r] = "store" /\ pc' = [pc EXCEPT ![r] = "queue"]
        /\ live' = live \cup {r} /\ pc'[r] = "queue" /\ r \in Procs
        /\ UNCHANGED <<pending, qview, woken, presented, evicted, amid>>
    BY <1>9 DEF StoreCandidate, Goto, views, Typed, Locals, Procs
  <2>2. r \notin woken
    BY <2>1 DEF Typed, Shared, At, Later
  <2>3. MustStay' \subseteq MustStay
    BY <1>0, <2>1, <2>2 DEF MustStay, Told, Typed, Locals
  <2> QED
    BY <2>1, <2>3, ListedStep DEF Listing
<1>10. ASSUME NEW r \in Reviews, WriteQueued(r) PROVE Listed'
  <2>1. /\ r \in Procs /\ pc' = [pc EXCEPT ![r] = "discard"] /\ pc[r] = "queueing"
        /\ r \in Queued(pending')
        /\ (Queued(qview[r]) \cup {r}) \ Queued(pending') \subseteq evicted'
        /\ evicted \subseteq evicted'
        /\ amid["queued"] \subseteq amid'["queued"]
        /\ Others(r, Listing) # {} => r \in amid'["queued"]
        /\ UNCHANGED <<live, woken, presented>>
        /\ \A q \in Procs \ {r} : qview'[q] = qview[q]
    BY <1>10, WriteQueuedChange, ForgetTyped DEF Procs
  <2>2. MustStay' \subseteq MustStay \cup {r}
    BY <1>0, <2>1 DEF MustStay, Told, Typed, Locals
  <2>3. MustStay' \subseteq Queued(pending')
    <3>1. MustStay \subseteq Queued(qview[r])
      BY <2>1 DEF Listed, Listing
    <3>2. MustStay' \cap evicted' = {}
      BY DEF MustStay
    <3> QED
      BY <2>1, <2>2, <3>1, <3>2
  <2>4. ASSUME NEW q \in Procs, pc'[q] \in Listing
        PROVE  MustStay' \subseteq Queued(qview'[q])
    <3>1. q # r /\ pc[q] \in Listing /\ qview'[q] = qview[q]
      BY <2>1, <2>4 DEF Listing, Typed, Locals
    <3>2. r \notin MustStay'
      BY <2>1, <3>1 DEF Others, MustStay
    <3> QED
      BY <2>2, <3>1, <3>2 DEF Listed
  <2>5. Queued(pending)' = Queued(pending') /\ \A q \in Procs : Queued(qview[q])' = Queued(qview'[q])
    BY DEF Queued
  <2> QED
    BY <2>3, <2>4, <2>5 DEF Listed
<1>11. ASSUME NEW r \in Reviews, Wake(r) PROVE Listed'
  <2>1. /\ r \in Procs /\ pc[r] = "wake" /\ pc' = [pc EXCEPT ![r] = "done"] /\ pc'[r] = "done"
        /\ woken' = woken \cup {r}
        /\ UNCHANGED <<pending, qview, live, presented, evicted, amid>>
    BY <1>11 DEF Wake, Goto, views, Typed, Locals, Procs
  <2>2. MustStay' \subseteq MustStay
    BY <1>0, <2>1 DEF MustStay, Told, Typed, Locals
  <2> QED
    BY <2>1, <2>2, ListedStep DEF Listing
<1>12. ASSUME NEW x \in Shows, WriteDropped(x) PROVE Listed'
  <2>1. /\ x \in Procs /\ pc[x] = "dropping" /\ pc' = [pc EXCEPT ![x] = "done"] /\ pc'[x] = "done"
        /\ Queued(pending') = Queued(qview[x]) \ {shown[x]}
        /\ presented' = presented \cup {shown[x]}
        /\ UNCHANGED <<live, woken, evicted, amid>>
        /\ \A q \in Procs \ {x} : qview'[q] = qview[q]
    BY <1>12, WriteDroppedChange, ForgetTyped DEF Procs
  <2>2. MustStay' \subseteq MustStay \ {shown[x]}
    BY <1>0, <2>1 DEF MustStay, Told, Typed, Locals
  <2>3. MustStay' \subseteq Queued(pending')
    BY <2>1, <2>2 DEF Listed, Listing
  <2>4. ASSUME NEW q \in Procs, pc'[q] \in Listing
        PROVE  MustStay' \subseteq Queued(qview'[q])
    BY <2>1, <2>2, <2>4 DEF Listed, Listing, Typed, Locals
  <2>5. Queued(pending)' = Queued(pending') /\ \A q \in Procs : Queued(qview[q])' = Queued(qview'[q])
    BY DEF Queued
  <2> QED
    BY <2>3, <2>4, <2>5 DEF Listed
<1>13. ASSUME NEW p \in Procs, Kill(p) PROVE Listed'
  <2>1. /\ pc' = [pc EXCEPT ![p] = "done"] /\ pc'[p] = "done"
        /\ UNCHANGED <<pending, live, woken, presented, evicted, amid>>
        /\ \A q \in Procs \ {p} : qview'[q] = qview[q]
    BY <1>13, ForgetTyped DEF Kill, history, Typed, Locals
  <2>2. MustStay' \subseteq MustStay
    BY <1>0, <2>1 DEF MustStay, Told, Typed, Locals
  <2> QED
    BY <2>1, <2>2, ListedStep DEF Listing
<1> QED
  BY <1>1, <1>2, <1>4, <1>5, <1>7, <1>8, <1>9, <1>10, <1>11, <1>12, <1>13, NextCases

\* Whatever overlaps, and whichever process is killed: a candidate whose session
\* is being told of it stays in the queue until it is shown, expires or is pushed
\* out -- unless it was queued amid another's rewriting of the queue.
THEOREM NoCandidateLost == Spec => []WokenStaysQueued
<1>1. Init => Listed
  BY DEF Init, Listed, MustStay, Listing, Queued
<1>2. Spec => []Listed
  BY <1>1, AlwaysTyped, ListedNext, PTL DEF Spec
<1>3. Listed => WokenStaysQueued
  BY DEF Listed, MustStay, Told, WokenStaysQueued
<1> QED
  BY <1>2, <1>3, PTL

-----------------------------------------------------------------------------
(* The daily ceiling.                                                      *)

LEMMA CardinalityStep ==
  ASSUME NEW S, IsFiniteSet(S), NEW b
  PROVE  /\ IsFiniteSet(S \cup {b})
         /\ Cardinality(S) \in Nat /\ Cardinality(S \cup {b}) \in Nat
         /\ Cardinality(S \cup {b}) <= Cardinality(S) + 1
BY FS_AddElement, FS_CardinalityType

LEMMA CountersTypes ==
  ASSUME NEW k \in Counters
  PROVE  k.day \in Int /\ k.count \in Nat
BY DEF Counters, NoDay

\* Fewer reviews on one day are no more.
LEMMA OnLess ==
  ASSUME NEW S, IsFiniteSet(S), NEW T \in SUBSET S, NEW d
  PROVE  /\ IsFiniteSet(On(S, d)) /\ IsFiniteSet(On(T, d))
         /\ Cardinality(On(S, d)) \in Nat /\ Cardinality(On(T, d)) \in Nat
         /\ Cardinality(On(T, d)) <= Cardinality(On(S, d))
<1>1. On(T, d) \subseteq On(S, d) /\ On(S, d) \subseteq S
  BY DEF On
<1>2. IsFiniteSet(On(S, d))
  BY <1>1, FS_Subset
<1>3. IsFiniteSet(On(T, d)) /\ Cardinality(On(T, d)) <= Cardinality(On(S, d))
  BY <1>1, <1>2, FS_Subset
<1> QED
  BY <1>2, <1>3, FS_CardinalityType

\* A sound record stays sound of fewer reviews, and later.
LEMMA SoundLess ==
  ASSUME NEW k \in Counters, NEW S, IsFiniteSet(S), NEW T \in SUBSET S,
         NEW today \in Nat, NEW later \in Nat, today <= later, SoundIn(k, S, today)
  PROVE  SoundIn(k, T, later)
<1>1. k.day \in Int /\ k.count \in Nat
  BY CountersTypes
<1>2. /\ Cardinality(On(S, k.day)) \in Nat /\ Cardinality(On(T, k.day)) \in Nat
      /\ Cardinality(On(T, k.day)) <= Cardinality(On(S, k.day))
  BY OnLess
<1>3. /\ k.day <= today /\ \A b \in S : b.day <= k.day
      /\ Cardinality(On(S, k.day)) <= k.count
  BY DEF SoundIn
<1>4. k.day <= later
  BY <1>1, <1>3
<1>5. Cardinality(On(T, k.day)) <= k.count
  <2> PICK m \in Nat : m = Cardinality(On(S, k.day))
    BY <1>2
  <2> PICK n \in Nat : n = Cardinality(On(T, k.day))
    BY <1>2
  <2>1. n <= m /\ m <= k.count
    BY <1>2, <1>3
  <2> QED
    BY <1>1, <2>1
<1> QED
  BY <1>3, <1>4, <1>5 DEF SoundIn

\* Soundness is of the day and the count.
LEMMA SoundSame ==
  ASSUME NEW k, NEW c, c.day = k.day, c.count = k.count, NEW S, NEW today, SoundIn(k, S, today)
  PROVE  SoundIn(c, S, today)
BY DEF SoundIn

LEMMA TallyTypes ==
  ASSUME Typed, Billed
  PROVE  /\ now \in Nat /\ Day(now) \in Nat
         /\ IsFiniteSet(Tallied) /\ Tallied \subseteq billed
         /\ \A b \in billed : b.day \in Nat /\ b.day <= Day(now) /\ b.review \in Reviews
<1>1. now \in Nat /\ Day(now) \in Nat
  BY DayProperties DEF Typed, Shared
<1>2. Tallied \subseteq billed
  BY DEF Tallied
<1>3. IsFiniteSet(Tallied)
  BY <1>2, FS_Subset DEF Billed
<1> QED
  BY <1>1, <1>2, <1>3 DEF Billed, Typed, Shared

\* The tally is what it was while nothing is billed and no review begins anew.
LEMMA TallyKept ==
  ASSUME Typed, Billed, billed' = billed, amid'["noted"] = amid["noted"], now' = now,
         \A b \in billed : event'[b.review] = event[b.review] /\ pc'[b.review] # "idle"
  PROVE  Tallied' = Tallied /\ Billed'
BY DEF Tallied, Automatic, Billed, Day

\* A step of p that adds nothing to the tally.
LEMMA CountedStep ==
  ASSUME Typed, Typed', Counted, NEW p \in Procs, pc' = [pc EXCEPT ![p] = pc'[p]],
         \A q \in Procs \ {p} : cview'[q] = cview[q],
         \A r \in Reviews \ {p} : event'[r] = event[r],
         now' = now, Billed', Tallied' \subseteq Tallied,
         NEW k \in Counters, Sound(k), SoundIn(k, Tallied', Day(now)) => Sound(counters)',
         pc'[p] \in Copying => cview'[p] = counters,
         p \in Reviews /\ pc'[p] \in {"note", "noting"} /\ event'[p].signal # "forced"
           => Cardinality(Today) < Limit
  PROVE  Counted'
<1>1. /\ now \in Nat /\ Day(now) \in Nat /\ IsFiniteSet(Tallied)
      /\ Limit \in Nat /\ Day(now) <= Day(now) /\ Day(now)' = Day(now)
  BY TallyTypes, ConstantsAssumption DEF Counted, Day
<1>2. ASSUME NEW j \in Counters, Sound(j)
      PROVE  SoundIn(j, Tallied', Day(now))
  BY <1>1, <1>2, SoundLess DEF Sound
<1>3. Sound(counters)'
  BY <1>2
<1>4. ASSUME NEW q \in Procs, pc'[q] \in Copying
      PROVE  Sound(cview[q])'
  <2>1. CASE q = p
    <3>1. counters \in Counters /\ Sound(counters)
      BY DEF Typed, Shared, Counted
    <3> QED
      BY <1>1, <1>2, <1>4, <2>1, <3>1 DEF Sound
  <2>2. CASE q # p
    <3>1. cview'[q] = cview[q] /\ cview[q] \in Counters /\ Sound(cview[q])
      BY <1>4, <2>2 DEF Typed, Locals, At, Counted
    <3> QED
      BY <1>1, <1>2, <3>1 DEF Sound
  <2> QED
    BY <2>1, <2>2
<1>5. ASSUME NEW d
      PROVE  /\ Cardinality(On(Tallied, d)) \in Nat /\ Cardinality(On(Tallied', d)) \in Nat
             /\ Cardinality(On(Tallied', d)) <= Cardinality(On(Tallied, d))
  BY <1>1, OnLess
<1>6. ASSUME NEW r \in Reviews
      PROVE  BelowLimit(r)'
  <2> SUFFICES ASSUME pc'[r] \in {"note", "noting"}, event'[r].signal # "forced"
               PROVE  Cardinality(On(Tallied', Day(now))) < Limit
    BY <1>1 DEF BelowLimit, Today
  <2>1. Cardinality(Today) < Limit
    BY DEF Counted, BelowLimit, Typed, Locals, Procs
  <2> QED
    BY <1>1, <1>5, <2>1 DEF Today
<1>7. ASSUME NEW d \in Nat
      PROVE  Cardinality(On(Tallied', d)) <= Limit
  <2>1. Cardinality(On(Tallied, d)) <= Limit
    BY DEF Counted
  <2> QED
    BY <1>1, <1>5, <2>1
<1>8. \A d \in Nat : Cardinality(On(Tallied, d)') <= Limit
  BY <1>7 DEF On
<1> QED
  BY <1>3, <1>4, <1>6, <1>8 DEF Counted

\* A review goes ahead that somebody asked for, or below the limit.
LEMMA PassiveNote ==
  ASSUME Typed, NEW r \in Reviews, Passive(r), pc'[r] \in {"note", "noting"}
  PROVE  pc[r] = "note" \/ Passes(event[r].signal)
<1> r \notin Shows /\ r \in Procs
  BY ConstantsAssumption DEF Procs
<1> pc \in [Procs -> Steps]
  BY DEF Typed, Locals
<1>1. CASE Walks(r)
  BY <1>1 DEF Walks, NoSignal, ReadAwaited, StillAwaiting, NotAwaiting, PassLimits, Limited,
              Invoke, Goto
<1>2. CASE ReviewReads(r)
  BY <1>2 DEF ReviewReads, ReadToClear, ReadToNote, ReadToQueue, ReadToAwait, Goto
<1> QED
  BY <1>1, <1>2 DEF Passive

\* What the limit leaves room for, when the counters are sound.
LEMMA RoomBelow ==
  ASSUME Typed, Counted, ~ LimitReached
  PROVE  Cardinality(Today) < Limit
<1>1. /\ Day(now) \in Nat /\ IsFiniteSet(Tallied) /\ Tallied \subseteq billed
      /\ \A b \in billed : b.day \in Nat
      /\ Limit \in Nat /\ Limit # 0
  BY TallyTypes, ConstantsAssumption DEF Counted
<1>2. counters.day \in Int /\ counters.count \in Nat
  BY CountersTypes DEF Typed, Shared
<1>3. /\ counters.day <= Day(now) /\ \A b \in Tallied : b.day <= counters.day
      /\ Cardinality(On(Tallied, counters.day)) <= counters.count
  BY DEF Counted, Sound, SoundIn
<1>4. CASE counters.day = Day(now)
  <2>1. counters.count < Limit
    BY <1>1, <1>2, <1>4 DEF LimitReached
  <2>2. Cardinality(Today) \in Nat /\ Cardinality(Today) <= counters.count
    BY <1>1, <1>3, <1>4, OnLess DEF Today
  <2> QED
    BY <1>1, <1>2, <2>1, <2>2
<1>5. CASE counters.day # Day(now)
  <2>1. \A b \in Tallied : b.day # Day(now)
    BY <1>1, <1>2, <1>3, <1>5
  <2>2. Today = {}
    BY <2>1 DEF Today, On
  <2> QED
    BY <1>1, <2>2, FS_EmptySet
<1> QED
  BY <1>4, <1>5

\* What note_review writes when what it read was sound.
LEMMA NotedSound ==
  ASSUME Typed, Billed, NEW k \in Counters, Sound(k), NEW T \in SUBSET Tallied
  PROVE  SoundIn(Noted(k), T, Day(now)) /\ Noted(k).day = Day(now)
         /\ Cardinality(On(T, Day(now))) + 1 <= Noted(k).count
<1>1. /\ now \in Nat /\ Day(now) \in Nat /\ IsFiniteSet(Tallied) /\ Tallied \subseteq billed
      /\ \A b \in billed : b.day \in Nat /\ b.day <= Day(now)
  BY TallyTypes
<1>2. k.day \in Int /\ k.count \in Nat
  BY CountersTypes
<1>3. /\ Noted(k).day = Day(now)
      /\ Noted(k).count = IF k.day = Day(now) THEN k.count + 1 ELSE 1
  BY <1>1, NotedProperties
<1>4. /\ k.day <= Day(now) /\ \A b \in Tallied : b.day <= k.day
      /\ Cardinality(On(Tallied, k.day)) <= k.count
  BY DEF Sound, SoundIn
<1>5. /\ Cardinality(On(Tallied, Day(now))) \in Nat /\ Cardinality(On(T, Day(now))) \in Nat
      /\ Cardinality(On(T, Day(now))) <= Cardinality(On(Tallied, Day(now)))
  BY <1>1, OnLess
<1>6. Cardinality(On(T, Day(now))) + 1 <= Noted(k).count
  <2>1. CASE k.day = Day(now)
    BY <1>2, <1>3, <1>4, <1>5, <2>1
  <2>2. CASE k.day # Day(now)
    <3>1. \A b \in Tallied : b.day # Day(now)
      BY <1>1, <1>2, <1>4, <2>2
    <3>2. On(T, Day(now)) = {}
      BY <3>1 DEF On
    <3>3. Cardinality(On(T, Day(now))) = 0
      BY <3>2, FS_EmptySet
    <3> QED
      BY <1>3, <2>2, <3>3
  <2> QED
    BY <2>1, <2>2
<1>7. Noted(k).count \in Nat
  BY <1>2, <1>3
<1>8. /\ Noted(k).day <= Day(now) /\ \A b \in T : b.day <= Noted(k).day
  BY <1>1, <1>3
<1>9. Cardinality(On(T, Noted(k).day)) <= Noted(k).count
  <2> PICK n \in Nat : n = Cardinality(On(T, Day(now)))
    BY <1>5
  <2>1. n + 1 <= Noted(k).count
    BY <1>6
  <2>2. n <= Noted(k).count
    BY <1>7, <2>1
  <2> QED
    BY <1>3, <2>2
<1> QED
  BY <1>3, <1>6, <1>8, <1>9 DEF SoundIn

\* The step that counts, amid others: the review is left out of the tally.
LEMMA NotedAmid ==
  ASSUME Typed, Typed', Counted, NEW r \in Reviews, WriteNoted(r),
         Others(r, Copying \cup {"note"}) # {}
  PROVE  Counted'
<1>1. /\ r \in Procs /\ pc[r] = "noting" /\ pc' = [pc EXCEPT ![r] = "invoke"] /\ pc'[r] = "invoke"
      /\ counters' = Noted(cview[r])
      /\ billed' = billed \cup {[review |-> r, day |-> Day(now)]}
      /\ event' = event /\ now' = now
      /\ r \in amid'["noted"] /\ amid["noted"] \subseteq amid'["noted"]
      /\ \A q \in Procs \ {r} : cview'[q] = cview[q]
  BY AmidChange, ForgetTyped DEF WriteNoted, Goto, args, Procs, Kinds, Typed, Locals
<1>2. Day(now) \in Nat /\ \A b \in billed : b.day <= Day(now) /\ b.review \in Reviews
  BY TallyTypes DEF Counted
<1>3. Tallied' \subseteq Tallied
  BY <1>1 DEF Tallied, Automatic
<1>4. Billed'
  <2>1. IsFiniteSet(billed')
    BY <1>1, CardinalityStep DEF Counted, Billed
  <2>2. \A b \in billed' : b.day <= Day(now) /\ pc'[b.review] # "idle"
    BY <1>1, <1>2 DEF Counted, Billed, Typed, Locals
  <2> QED
    BY <1>1, <2>1, <2>2 DEF Billed, Day
<1>5. cview[r] \in Counters /\ Sound(cview[r])
  BY <1>1 DEF Counted, Copying, Typed, At
<1>6. Sound(counters)'
  <2>1. SoundIn(Noted(cview[r]), Tallied', Day(now))
    BY <1>3, <1>5, NotedSound DEF Counted
  <2> QED
    BY <1>1, <2>1 DEF Sound, Day
<1> QED
  BY <1>1, <1>3, <1>4, <1>5, <1>6, CountedStep DEF Copying

\* The step that counts, on its own: what it read is what there is to count.
LEMMA NotedAlone ==
  ASSUME Typed, Typed', Counted, NEW r \in Reviews, WriteNoted(r),
         Others(r, Copying \cup {"note"}) = {}
  PROVE  Counted'
<1>0. Day(now) \in Nat
  BY TallyTypes DEF Counted
<1> PICK D \in Nat : D = Day(now)
  BY <1>0
<1> PICK nb : nb = [review |-> r, day |-> D]
  OBVIOUS
<1>1. /\ r \in Procs /\ pc[r] = "noting" /\ pc' = [pc EXCEPT ![r] = "invoke"] /\ pc'[r] = "invoke"
      /\ counters' = Noted(cview[r])
      /\ billed' = billed \cup {nb} /\ nb.review = r /\ nb.day = D
      /\ event' = event /\ now' = now /\ amid' = amid
  BY DEF WriteNoted, Amid, Goto, args, Procs, Typed, Locals
<1>2. /\ IsFiniteSet(Tallied) /\ Limit \in Nat
      /\ \A b \in billed : b.day \in Nat /\ b.day <= D /\ b.review \in Reviews
  BY TallyTypes, ConstantsAssumption DEF Counted
<1>3. Tallied' \subseteq Tallied \cup {nb} /\ (nb \in Tallied' => event[r].signal # "forced")
  BY <1>1 DEF Tallied, Automatic
<1>4. ASSUME NEW q \in Procs
      PROVE  pc'[q] \notin Copying \cup {"note"}
  BY <1>1, <1>4 DEF Others, Copying, Typed, Locals
<1>5. Day(now)' = D
  BY <1>1 DEF Day
<1>6. Billed'
  <2>1. IsFiniteSet(billed')
    BY <1>1, CardinalityStep DEF Counted, Billed
  <2>2. \A b \in billed' : b.day <= D /\ pc'[b.review] # "idle"
    BY <1>1, <1>2 DEF Counted, Billed, Typed, Locals
  <2> QED
    BY <1>5, <2>1, <2>2 DEF Billed
<1>7. /\ \A d : d # D => On(Tallied', d) \subseteq On(Tallied, d)
      /\ On(Tallied', D) \subseteq On(Tallied, D) \cup {nb}
      /\ event[r].signal = "forced" => On(Tallied', D) \subseteq On(Tallied, D)
  BY <1>1, <1>3 DEF On
<1>8. ASSUME NEW d
      PROVE  /\ IsFiniteSet(On(Tallied, d)) /\ Cardinality(On(Tallied, d)) \in Nat
             /\ Cardinality(On(Tallied', d)) \in Nat
             /\ On(Tallied', d) \subseteq On(Tallied, d) =>
                  Cardinality(On(Tallied', d)) <= Cardinality(On(Tallied, d))
  <2>1. IsFiniteSet(On(Tallied, d)) /\ Cardinality(On(Tallied, d)) \in Nat
    BY <1>2, OnLess
  <2>2. IsFiniteSet(On(Tallied, d) \cup {nb})
    BY <2>1, CardinalityStep
  <2>3. On(Tallied', d) \subseteq On(Tallied, d) \cup {nb}
    BY <1>7
  <2>4. IsFiniteSet(On(Tallied', d))
    BY <2>2, <2>3, FS_Subset
  <2> QED
    BY <2>1, <2>4, FS_Subset, FS_CardinalityType
<1>9. Cardinality(On(Tallied', D)) <= Cardinality(On(Tallied, D)) + 1
  <2>1. /\ IsFiniteSet(On(Tallied, D) \cup {nb}) /\ Cardinality(On(Tallied, D) \cup {nb}) \in Nat
        /\ Cardinality(On(Tallied, D) \cup {nb}) <= Cardinality(On(Tallied, D)) + 1
    BY <1>8, CardinalityStep
  <2>2. Cardinality(On(Tallied', D)) <= Cardinality(On(Tallied, D) \cup {nb})
    BY <1>7, <2>1, FS_Subset
  <2> QED
    BY <1>8, <2>1, <2>2
<1>10. cview[r] \in Counters /\ Sound(cview[r])
  BY <1>1 DEF Counted, Copying, Typed, At
<1>11. Noted(cview[r]).day = D /\ Cardinality(On(Tallied, D)) + 1 <= Noted(cview[r]).count
  BY <1>10, NotedSound DEF Counted
<1>12. Sound(counters)'
  <2>1. counters'.day = D /\ counters'.count \in Nat
    BY <1>1, <1>11, CountersTypes DEF Typed, Shared
  <2>2. Cardinality(On(Tallied', D)) <= counters'.count
    <3>1. Cardinality(On(Tallied, D)) + 1 <= counters'.count
      BY <1>1, <1>11
    <3> QED
      BY <1>8, <1>9, <2>1, <3>1
  <2>3. \A b \in Tallied' : b.day <= D
    <3>1. Tallied \subseteq billed
      BY DEF Tallied
    <3> QED
      BY <1>1, <1>2, <1>3, <3>1
  <2> QED
    BY <1>5, <2>1, <2>2, <2>3 DEF Sound, SoundIn
<1>13. ASSUME NEW d \in Nat
       PROVE  Cardinality(On(Tallied', d)) <= Limit
  <2>1. Cardinality(On(Tallied, d)) <= Limit
    BY DEF Counted
  <2>2. CASE On(Tallied', d) \subseteq On(Tallied, d)
    BY <1>2, <1>8, <2>1, <2>2
  <2>3. CASE d = D /\ event[r].signal # "forced"
    <3>1. Cardinality(On(Tallied, D)) < Limit
      BY <1>1, <2>3 DEF Counted, BelowLimit, Today
    <3> QED
      BY <1>2, <1>8, <1>9, <2>3, <3>1
  <2> QED
    BY <1>7, <2>2, <2>3
<1>14. \A d \in Nat : Cardinality(On(Tallied, d)') <= Limit
  BY <1>13 DEF On
<1>15. \A q \in Reviews : BelowLimit(q)'
  BY <1>4 DEF BelowLimit, Copying, Procs
<1> QED
  BY <1>4, <1>6, <1>12, <1>14, <1>15 DEF Counted

\* The steps that bill nothing and leave the day and the count as they were read.
LEMMA CountedKept ==
  ASSUME Typed, Typed', Counted, NEW p \in Procs, pc' = [pc EXCEPT ![p] = pc'[p]],
         \A q \in Procs \ {p} : cview'[q] = cview[q],
         \A r \in Reviews : r # p \/ pc[p] # "idle" => event'[r] = event[r],
         now' = now, billed' = billed, amid'["noted"] = amid["noted"],
         pc'[p] # "idle",
         NEW k \in Counters, Sound(k), counters'.day = k.day, counters'.count = k.count,
         pc'[p] \in Copying => cview'[p] = counters,
         p \in Reviews /\ pc'[p] \in {"note", "noting"} /\ event'[p].signal # "forced"
           => Cardinality(Today) < Limit
  PROVE  Counted'
<1>1. \A b \in billed : event'[b.review] = event[b.review] /\ pc'[b.review] # "idle"
  BY DEF Counted, Billed, Typed, Shared, Locals, Procs
<1>2. Tallied' = Tallied /\ Billed'
  BY <1>1, TallyKept DEF Counted
<1>3. SoundIn(k, Tallied', Day(now)) => Sound(counters)'
  BY SoundSame DEF Sound, Day
<1>4. \A r \in Reviews \ {p} : event'[r] = event[r]
  OBVIOUS
<1> QED
  BY <1>2, <1>3, <1>4, CountedStep

LEMMA CountedNext == Typed /\ Counted /\ [Next]_vars => Counted'
<1> SUFFICES ASSUME Typed, Counted, [Next]_vars PROVE Counted'
  OBVIOUS
<1>0. Typed' /\ counters \in Counters /\ Sound(counters)
  BY TypedNext DEF Counted, Typed, Shared
<1>1. ASSUME UNCHANGED vars \/ \E c \in Reviews : Expire(c)
      PROVE  Counted'
  <2>1. UNCHANGED <<counters, billed, amid, event, pc, now, cview>>
    BY <1>1 DEF vars, Expire, views, args, history
  <2>2. Tallied' = Tallied /\ Billed'
    BY <2>1, TallyKept DEF Counted, Billed
  <2> QED
    BY <2>1, <2>2 DEF Counted, Sound, SoundIn, BelowLimit, Today, On, Day
<1>2. CASE Tick
  <2>1. /\ now' = now + 1 /\ UNCHANGED <<counters, pc, event, billed, amid, cview>>
    BY <1>2 DEF Tick, args, views, history
  <2>2. /\ now \in Nat /\ Day(now) \in Nat /\ IsFiniteSet(Tallied) /\ Tallied \subseteq billed
        /\ \A b \in billed : b.day \in Nat /\ b.day <= Day(now)
    BY TallyTypes DEF Counted
  <2> PICK D \in Nat : D = Day(now)
    BY <2>2
  <2>3. now' \in Nat /\ Day(now') \in Nat /\ D <= Day(now')
    BY <2>1, <2>2, DayProperties
  <2> PICK E \in Nat : E = Day(now')
    BY <2>3
  <2>4. Day(now)' = E /\ D <= E
    BY <2>3 DEF Day
  <2>5. Tallied' = Tallied
    BY <2>1 DEF Tallied, Automatic
  <2>6. Billed'
    BY <2>1, <2>2, <2>4 DEF Counted, Billed
  <2>7. \A j \in Counters : Sound(j) => SoundIn(j, Tallied, E)
    BY <2>2, <2>4, SoundLess DEF Sound
  <2>8. Sound(counters)'
    BY <1>0, <2>1, <2>4, <2>5, <2>7 DEF Sound
  <2>9. \A q \in Procs : pc'[q] \in Copying => Sound(cview[q])'
    BY <2>1, <2>4, <2>5, <2>7 DEF Counted, Sound, Typed, At
  <2>10. Cardinality(On(Tallied, E)) < Limit \/ Today = On(Tallied, E)
    <3>1. CASE D = E
      BY <3>1 DEF Today
    <3>2. CASE D # E
      <4>1. On(Tallied, E) = {}
        BY <2>2, <2>4, <3>2 DEF On
      <4> QED
        BY <4>1, FS_EmptySet, ConstantsAssumption
    <3> QED
      BY <3>1, <3>2
  <2>11. \A r \in Reviews : BelowLimit(r)'
    BY <2>1, <2>4, <2>5, <2>10 DEF Counted, BelowLimit, Today
  <2>12. \A d \in Nat : Cardinality(On(Tallied, d)') <= Limit
    BY <2>5 DEF Counted, On
  <2> QED
    BY <2>6, <2>8, <2>9, <2>11, <2>12 DEF Counted
<1>3. ASSUME NEW p \in Procs, Passive(p) PROVE Counted'
  <2>1. /\ Moved(p) /\ counters' = counters /\ billed' = billed /\ now' = now /\ event' = event
        /\ amid' = amid
    BY <1>3, PassiveChange DEF Moved, args, history
  <2>2. ASSUME p \in Reviews, pc'[p] \in {"note", "noting"}, event[p].signal # "forced"
        PROVE  Cardinality(Today) < Limit
    <3>1. CASE pc[p] = "note"
      BY <2>2, <3>1 DEF Counted, BelowLimit
    <3>2. CASE Passes(event[p].signal)
      BY <2>2, <3>2, RoomBelow DEF Passes
    <3> QED
      BY <1>3, <2>2, <3>1, <3>2, PassiveNote
  <2>3. /\ pc'[p] \in Copying => cview'[p] = counters
        /\ \A q \in Procs \ {p} : cview'[q] = cview[q]
    BY <2>1 DEF Moved, Typed, Locals
  <2> QED
    BY <1>0, <2>1, <2>2, <2>3, CountedKept DEF Moved
<1>4. ASSUME NEW p \in Procs, NEW s \in Sessions, NEW v \in Reviews \cup {None},
             WritesCounters(p, [cview[p] EXCEPT !.awaiting[s] = v]), billed' = billed,
             amid'["noted"] = amid["noted"], pc'[p] \notin {"note", "noting"}
      PROVE  Counted'
  <2>1. cview[p] \in Counters /\ Sound(cview[p])
    BY <1>4 DEF WritesCounters, Counted, Typed, At
  <2>2. counters'.day = cview[p].day /\ counters'.count = cview[p].count
    BY <1>4, <2>1, FlagProperties DEF WritesCounters
  <2>3. \A q \in Procs \ {p} : cview'[q] = cview[q]
    BY <1>4, ForgetTyped DEF WritesCounters
  <2>4. event' = event /\ now' = now
    BY <1>4 DEF WritesCounters, args
  <2> QED
    BY <1>0, <1>4, <2>1, <2>2, <2>3, <2>4, CountedKept DEF WritesCounters
<1>5. ASSUME NEW p \in Procs, ClearsFlag(p) PROVE Counted'
  BY <1>4, <1>5, ClearsFlagChange
<1>6. ASSUME NEW r \in Reviews, WriteAwaiting(r) PROVE Counted'
  <2>1. /\ r \in Procs /\ pc[r] = "awaiting" /\ pc'[r] = "wake"
    BY <1>6 DEF WriteAwaiting, Goto, Typed, Locals, Procs
  <2>2. SessionOf(r) \in Sessions
    BY <2>1 DEF Typed, At, Turn, SessionOf
  <2> QED
    BY <1>4, <1>6, <2>1, <2>2, WriteAwaitingChange
<1>7. ASSUME NEW r \in Reviews, WriteNoted(r) PROVE Counted'
  BY <1>0, <1>7, NotedAmid, NotedAlone
<1>8. ASSUME NEW p \in Procs, NEW to, pc' = [pc EXCEPT ![p] = to], to \notin {"idle", "note", "noting"},
             to \notin Copying,
             \A r \in Reviews : r # p \/ pc[p] # "idle" => event'[r] = event[r],
             \A q \in Procs \ {p} : cview'[q] = cview[q],
             UNCHANGED <<now, counters, billed>>, amid'["noted"] = amid["noted"]
      PROVE  Counted'
  <2>1. pc' = [pc EXCEPT ![p] = pc'[p]] /\ pc'[p] = to
    BY <1>8 DEF Typed, Locals
  <2> QED
    BY <1>0, <1>8, <2>1, CountedKept
<1>9. ASSUME NEW r \in Reviews, NEW s \in Sessions, NEW k \in Signals, Stop(r, s, k)
      PROVE  Counted'
  <2>1. /\ r \in Procs /\ pc[r] = "idle" /\ pc' = [pc EXCEPT ![r] = "awaited"]
        /\ \A q \in Reviews \ {r} : event'[q] = event[q]
        /\ UNCHANGED <<now, counters, billed, amid, cview>>
    BY <1>9 DEF Stop, Goto, views, history, Procs, Typed, Locals
  <2> QED
    BY <1>8, <2>1 DEF Copying
<1>10. ASSUME NEW r \in Reviews, StoreCandidate(r) \/ WriteQueued(r) \/ DiscardTurn(r) \/ Wake(r)
       PROVE  Counted'
  <2>1. /\ r \in Procs /\ \E to \in {"queue", "discard", "await", "done"} : pc' = [pc EXCEPT ![r] = to]
        /\ event' = event /\ UNCHANGED <<now, counters, billed>>
    BY <1>10 DEF StoreCandidate, WriteQueued, DiscardTurn, Wake, Goto, args, history, Procs
  <2>2. amid'["noted"] = amid["noted"]
    BY <1>10, WriteQueuedChange DEF StoreCandidate, DiscardTurn, Wake, history
  <2>3. \A q \in Procs \ {r} : cview'[q] = cview[q]
    BY <1>10, <2>1 DEF StoreCandidate, WriteQueued, DiscardTurn, Wake, Forget, views, Typed, Locals
  <2> QED
    BY <1>8, <2>1, <2>2, <2>3 DEF Copying
<1>11. ASSUME NEW p \in Procs, (p \in Shows /\ \E c \in Askable : Show(p, c))
                               \/ (p \in Shows /\ WriteDropped(p)) \/ Kill(p)
       PROVE  Counted'
  <2>1. /\ \E to \in {"show", "done"} : pc' = [pc EXCEPT ![p] = to]
        /\ event' = event /\ UNCHANGED <<now, counters, billed, amid>>
    BY <1>11 DEF Show, WriteDropped, Kill, Goto, args, history
  <2>2. \A q \in Procs \ {p} : cview'[q] = cview[q]
    BY <1>11 DEF Show, WriteDropped, Kill, Forget, views, Typed, Locals
  <2> QED
    BY <1>8, <2>1, <2>2 DEF Copying
<1> QED
  BY <1>1, <1>2, <1>3, <1>5, <1>6, <1>7, <1>9, <1>10, <1>11, NextCases DEF Procs

LEMMA InitCounted == Init => Counted
<1> SUFFICES ASSUME Init PROVE Counted
  OBVIOUS
<1>1. billed = {} /\ \A p \in Procs : pc[p] = "idle"
  BY DEF Init
<1>2. Tallied = {} /\ \A d : On(Tallied, d) = {}
  BY <1>1 DEF Tallied, On
<1>3. Cardinality({}) = 0 /\ IsFiniteSet({}) /\ Limit \in Nat
  BY FS_EmptySet, ConstantsAssumption
<1>4. Day(now) \in Nat
  BY DayProperties DEF Init
<1>5. counters.day = -1 /\ counters.count = 0
  BY DEF Init, NoDay
<1>6. Sound(counters)
  BY <1>2, <1>3, <1>4, <1>5 DEF Sound, SoundIn
<1>7. Billed /\ \A r \in Reviews : BelowLimit(r)
  BY <1>1, <1>3 DEF Billed, BelowLimit, Procs
<1> QED
  BY <1>1, <1>2, <1>3, <1>6, <1>7 DEF Counted, Copying

\* However the hooks overlap, and whichever is killed: of the automatic reviews
\* noted on one day, those that were not noted amid another's rewriting of the
\* counters, or while another had passed the limits, stay within the limit.
THEOREM CeilingHolds == Spec => []CeilingUnlessAmid
<1>1. Spec => []Counted
  BY AlwaysTyped, InitCounted, CountedNext, PTL DEF Spec
<1>2. Typed /\ Counted => CeilingUnlessAmid
  <2> SUFFICES ASSUME Typed, Counted, NEW d \in Day(0) .. Day(now)
               PROVE  Cardinality({b \in billed : b.day = d /\ Automatic(b)
                                                  /\ b.review \notin amid["noted"]}) <= Limit
    BY DEF CeilingUnlessAmid
  <2>1. d \in Nat
    BY DayProperties DEF Typed, Shared
  <2>2. On(Tallied, d) = {b \in billed : b.day = d /\ Automatic(b) /\ b.review \notin amid["noted"]}
    BY DEF On, Tallied
  <2> QED
    BY <2>1, <2>2 DEF Counted
<1> QED
  BY <1>1, <1>2, AlwaysTyped, PTL

-----------------------------------------------------------------------------
(* The guard of a session.                                                 *)

\* A candidate that guards its session was stored, and its review is past the gate.
LEMMA OwedTypes ==
  ASSUME Typed, NEW c \in Owed
  PROVE  /\ c \in Reviews /\ c \in Procs /\ c \in stored /\ c \in live /\ SessionOf(c) \in Sessions
         /\ pc[c] \in Later \cup {"done"} /\ pc[c] \notin Checked /\ pc[c] # "idle"
<1>1. c \in stored
  BY DEF Owed, Typed, Shared
<1>2. c \in Reviews /\ SessionOf(c) \in Sessions /\ c \in Procs
  BY <1>1, StoredSession DEF Procs
<1>3. pc[c] \in Later \cup {"done"}
  BY <1>1, <1>2 DEF Typed, At
<1> QED
  BY <1>1, <1>2, <1>3 DEF Owed, Later, Checked

\* No candidate guards its session that did not: none is woken anew, or freed of
\* what took its guard away.
LEMMA OwedKept ==
  ASSUME Typed, NEW p \in Procs, pc' = [pc EXCEPT ![p] = pc'[p]],
         live' \subseteq live, woken' = woken, lifted \subseteq lifted',
         amid["flagged"] \subseteq amid'["flagged"],
         \A x \in Shows : shown'[x] = shown[x],
         pc'[p] # "wake"
  PROVE  Owed' \subseteq Owed
BY DEF Owed, Guarded, Typed, Shared, Locals, Procs

\* A step of p in which a candidate keeps its guard, or loses it for good.
LEMMA WatchingStep ==
  ASSUME Typed, Typed', Watching, [Next]_vars, NEW p \in Procs,
         pc' = [pc EXCEPT ![p] = pc'[p]], pc'[p] # "idle",
         \A q \in Procs \ {p} : cview'[q] = cview[q],
         \A r \in Reviews \ {p} : seen'[r] = seen[r] /\ event'[r] = event[r],
         \A x \in Shows \ {p} : shown'[x] = shown[x],
         Owed' \subseteq Owed,
         \A c \in Owed' : counters'.awaiting[SessionOf(c)] = c,
         pc'[p] \in Copying => cview'[p] = counters,
         \A c \in Owed' : p \in Reviews /\ pc'[p] \in Checked /\ SessionOf(c) = event'[p].session
           => pc'[p] = "record" /\ seen'[p] = c
  PROVE  Watching'
<1>1. ASSUME NEW c \in Owed'
      PROVE  c \in Owed /\ SessionOf(c)' = SessionOf(c) /\ SessionOf(c) \in Sessions
  BY OwedTypes, StoredKept DEF SessionOf
<1>2. AwaitedIn(counters)'
  BY <1>1 DEF AwaitedIn
<1>3. ASSUME NEW q \in Procs, pc'[q] \in Copying
      PROVE  AwaitedIn(cview[q])'
  <2>1. CASE q = p
    BY <1>1, <1>3, <2>1 DEF AwaitedIn, Watching
  <2>2. CASE q # p
    BY <1>1, <1>3, <2>2 DEF AwaitedIn, Watching, Typed, Locals
  <2> QED
    BY <2>1, <2>2
<1>4. ASSUME NEW r \in Reviews
      PROVE  Heeds(r)'
  <2>1. CASE r = p
    BY <1>1, <2>1 DEF Heeds, SessionOf
  <2>2. CASE r # p
    <3>1. pc'[r] = pc[r] /\ seen'[r] = seen[r] /\ SessionOf(r)' = SessionOf(r)
      BY <2>2 DEF Typed, Locals, Procs, SessionOf
    <3> QED
      BY <1>1, <3>1 DEF Heeds, Watching
  <2> QED
    BY <2>1, <2>2
<1>5. \A x \in Shows : pc'[x] = "idle" => shown'[x] = None
  BY DEF Watching, Typed, Locals, Procs
<1> QED
  BY <1>2, <1>3, <1>4, <1>5 DEF Watching

\* Where a review of a guarded session can be.
LEMMA HeedsAt ==
  ASSUME Typed, Watching, NEW r \in Reviews, NEW c \in Owed, SessionOf(c) = SessionOf(r)
  PROVE  /\ pc[r] \notin {"unawait", "unawaiting", "limits", "note", "noting"}
         /\ pc[r] = "record" => seen[r] = c
BY DEF Watching, Heeds, Checked

\* Where it goes when it writes nothing.
LEMMA WalksHeed ==
  ASSUME Typed, Watching, NEW r \in Reviews, Passive(r), NEW c \in Owed,
         SessionOf(c) = SessionOf(r), pc'[r] \in Checked
  PROVE  pc'[r] = "record" /\ seen'[r] = c
<1>1. r \notin Shows /\ r \in Procs /\ pc \in [Procs -> Steps]
      /\ seen \in [Reviews -> Reviews \cup {None}]
  BY ConstantsAssumption DEF Procs, Typed, Locals
<1>2. /\ pc[r] \notin {"unawait", "unawaiting", "limits", "note", "noting"}
      /\ pc[r] = "record" => seen[r] = c
  BY HeedsAt
<1>3. c \in live /\ c \in Reviews /\ SessionOf(c) \in Sessions
  BY OwedTypes
<1>4. CASE ReadAwaited(r)
  <2>1. counters.awaiting[SessionOf(r)] = c
    BY DEF Watching, AwaitedIn
  <2>2. c # None
    BY <1>3, ConstantsAssumption
  <2> QED
    BY <1>1, <1>4, <2>1, <2>2 DEF ReadAwaited, Goto
<1>5. CASE NoSignal(r) \/ StillAwaiting(r) \/ Limited(r) \/ \E lesson \in BOOLEAN : Invoke(r, lesson)
  BY <1>1, <1>5 DEF NoSignal, StillAwaiting, Limited, Invoke, Goto, Checked
<1>6. CASE NotAwaiting(r) \/ PassLimits(r)
  BY <1>1, <1>2, <1>3, <1>6 DEF NotAwaiting, PassLimits, Goto
<1>7. CASE ReviewReads(r)
  BY <1>1, <1>2, <1>7 DEF ReviewReads, ReadToClear, ReadToNote, ReadToQueue, ReadToAwait, Goto,
                          Checked
<1> QED
  BY <1>1, <1>4, <1>5, <1>6, <1>7 DEF Passive, Walks

\* A flag that is taken down, and put up for no other session, is lifted.
LEMMA FlagLifted ==
  ASSUME Typed, NEW c \in Owed, NEW k \in Counters, k.awaiting[SessionOf(c)] = c,
         NEW d, Lift(k, d), \A t \in Sessions : d.awaiting[t] # c
  PROVE  c \notin Owed'
<1>1. SessionOf(c) \in Sessions /\ c # None
  BY OwedTypes, ConstantsAssumption
<1>2. c \in Flags(k) /\ c \notin Flags(d)
  BY <1>1 DEF Flags
<1>3. c \in lifted'
  BY <1>2 DEF Lift
<1> QED
  BY <1>3 DEF Owed, Guarded

\* A candidate is awaited by its own session only.
LEMMA AwaitedOnce ==
  ASSUME NEW k, Referred(k), NEW t \in Sessions, NEW c, c # None, k.awaiting[t] = c
  PROVE  SessionOf(c) = t
BY DEF Referred, ReferredIn, SessionOf

LEMMA ClearsWatching ==
  ASSUME Typed, Typed', Referring, Watching, [Next]_vars, NEW p \in Procs, ClearsFlag(p)
  PROVE  Watching'
<1> PICK s \in Sessions : s = Cleared(p)
  BY ClearsFlagChange
<1> PICK k : k = cview[p]
  OBVIOUS
<1>1. /\ WritesCounters(p, [k EXCEPT !.awaiting[s] = None])
      /\ amid' = amid
      /\ \/ p \in Reviews /\ pc[p] = "unawaiting" /\ pc'[p] = "limits"
         \/ p \in Shows /\ pc[p] = "clearing" /\ pc'[p] = "drop"
  BY ClearsFlagChange
<1>2. /\ k \in Counters /\ Referred(k) /\ AwaitedIn(k)
  BY <1>1 DEF Typed, At, Referring, Watching, WritesCounters
<1>3. /\ counters'.awaiting = [k.awaiting EXCEPT ![s] = None]
      /\ k.awaiting \in [Sessions -> Reviews \cup {None}]
  BY <1>1, <1>2, FlagProperties DEF WritesCounters, Counters
<1>4. Owed' \subseteq Owed
  BY <1>1, OwedKept DEF WritesCounters, args
<1>5. ASSUME NEW c \in Owed'
      PROVE  SessionOf(c) # s
  <2> SUFFICES ASSUME SessionOf(c) = s PROVE FALSE
    OBVIOUS
  <2>1. c \in Owed /\ c # None
    BY <1>4, OwedTypes, ConstantsAssumption
  <2>2. CASE p \in Reviews /\ pc[p] = "unawaiting"
    <3>1. s = SessionOf(p)
      BY <2>2 DEF Cleared
    <3> QED
      BY <2>1, <2>2, <3>1, HeedsAt
  <2>3. CASE p \in Shows
    <3>1. Lift(k, counters')
      BY <1>1, <2>3, ConstantsAssumption DEF ClearsFlag, WriteCleared
    <3>2. ASSUME NEW t \in Sessions, counters'.awaiting[t] = c
          PROVE  FALSE
      <4>1. t # s /\ k.awaiting[t] = c
        BY <1>3, <2>1, <3>2
      <4> QED
        BY <1>2, <2>1, <4>1, AwaitedOnce
    <3>3. k.awaiting[SessionOf(c)] = c
      BY <1>2, <2>1 DEF AwaitedIn
    <3> QED
      BY <1>2, <2>1, <3>1, <3>2, <3>3, FlagLifted
  <2> QED
    BY <1>1, <2>2, <2>3
<1>6. \A c \in Owed' : counters'.awaiting[SessionOf(c)] = c
  BY <1>2, <1>3, <1>4, <1>5, OwedTypes DEF AwaitedIn
<1>7. \A c \in Owed' : p \in Reviews => SessionOf(c) # event'[p].session
  BY <1>1, <1>5 DEF Cleared, SessionOf, WritesCounters, args
<1>8. /\ \A q \in Procs \ {p} : cview'[q] = cview[q]
      /\ seen' = seen /\ event' = event /\ shown' = shown
      /\ pc' = [pc EXCEPT ![p] = pc'[p]] /\ pc'[p] # "idle" /\ pc'[p] \notin Copying
  BY <1>1, ForgetTyped DEF WritesCounters, args
<1> QED
  BY <1>4, <1>6, <1>7, <1>8, WatchingStep

LEMMA NotedWatching ==
  ASSUME Typed, Typed', Referring, Watching, [Next]_vars, NEW r \in Reviews, WriteNoted(r)
  PROVE  Watching'
<1> PICK k : k = cview[r]
  OBVIOUS
<1>1. /\ r \in Procs /\ pc[r] = "noting" /\ pc' = [pc EXCEPT ![r] = "invoke"] /\ pc'[r] = "invoke"
      /\ WritesCounters(r, Noted(k)) /\ counters' = Noted(k) /\ Lift(k, counters')
      /\ amid["flagged"] \subseteq amid'["flagged"]
  BY WriteNotedChange, AmidChange DEF WriteNoted, Goto, Typed, Locals, Procs, Kinds
<1>2. k \in Counters /\ AwaitedIn(k) /\ now \in Nat
  BY <1>1 DEF Typed, Shared, At, Watching, WritesCounters
<1>3. counters'.awaiting = k.awaiting \/ counters'.awaiting = [s \in Sessions |-> None]
  BY <1>1, <1>2, NotedProperties
<1>4. Owed' \subseteq Owed
  BY <1>1, OwedKept DEF WritesCounters, args
<1>5. ASSUME NEW c \in Owed'
      PROVE  counters'.awaiting[SessionOf(c)] = c
  <2>1. c \in Owed /\ c # None /\ k.awaiting[SessionOf(c)] = c
    BY <1>2, <1>4, OwedTypes, ConstantsAssumption DEF AwaitedIn
  <2>2. CASE counters'.awaiting = k.awaiting
    BY <2>1, <2>2
  <2>3. CASE counters'.awaiting = [s \in Sessions |-> None]
    <3>1. \A t \in Sessions : counters'.awaiting[t] # c
      BY <2>1, <2>3
    <3> QED
      BY <1>1, <1>2, <2>1, <3>1, FlagLifted
  <2> QED
    BY <1>3, <2>2, <2>3
<1>6. /\ \A q \in Procs \ {r} : cview'[q] = cview[q]
      /\ seen' = seen /\ event' = event /\ shown' = shown
      /\ pc'[r] # "idle" /\ pc'[r] \notin Copying \cup Checked
  BY <1>1, ForgetTyped DEF WritesCounters, args, Copying, Checked
<1> QED
  BY <1>1, <1>4, <1>5, <1>6, WatchingStep

\* The flag goes up: nobody is left who missed it, or the candidate is marked.
LEMMA AwaitingWatching ==
  ASSUME Typed, Typed', Referring, Watching, [Next]_vars, NEW r \in Reviews, WriteAwaiting(r)
  PROVE  Watching'
<1> PICK k : k = cview[r]
  OBVIOUS
<1> DEFINE s == SessionOf(r)
           others == Others(r, Copying) \cup {q \in Reviews \cap Others(r, Checked) : SessionOf(q) = s}
<1>1. /\ r \in Procs /\ pc[r] = "awaiting" /\ pc' = [pc EXCEPT ![r] = "wake"] /\ pc'[r] = "wake"
      /\ WritesCounters(r, [k EXCEPT !.awaiting[s] = r])
      /\ counters' = [k EXCEPT !.awaiting[s] = r] /\ Lift(k, counters')
  BY WriteAwaitingChange DEF WriteAwaiting, Goto, Typed, Locals, Procs
<1>2. /\ amid["flagged"] \subseteq amid'["flagged"]
      /\ others # {} => r \in amid'["flagged"]
  BY AmidChange DEF WriteAwaiting, Kinds
<1> HIDE DEF others
<1>3. /\ k \in Counters /\ Referred(k) /\ AwaitedIn(k) /\ s \in Sessions
  BY <1>1 DEF Typed, At, Referring, Watching, WritesCounters, SessionOf, Turn
<1>4. /\ counters'.awaiting = [k.awaiting EXCEPT ![s] = r]
      /\ k.awaiting \in [Sessions -> Reviews \cup {None}]
  BY <1>1, <1>3, FlagProperties DEF Counters
<1>5. /\ \A q \in Procs \ {r} : cview'[q] = cview[q]
      /\ seen' = seen /\ event' = event /\ shown' = shown /\ live' = live /\ woken' = woken
      /\ lifted \subseteq lifted'
  BY <1>1, ForgetTyped DEF WritesCounters, args
<1>6. Owed' \subseteq Owed \cup {r}
  BY <1>1, <1>2, <1>5 DEF Owed, Guarded, Typed, Shared, Locals, Procs
<1>7. r \in Owed' => others = {}
  BY <1>2 DEF Owed, Guarded
<1>8. \A c : SessionOf(c)' = SessionOf(c)
  BY <1>5 DEF SessionOf
<1>9. ASSUME NEW c \in Owed', c # r
      PROVE  SessionOf(c) # s
  <2> SUFFICES ASSUME SessionOf(c) = s PROVE FALSE
    OBVIOUS
  <2>1. c \in Owed /\ c # None /\ k.awaiting[SessionOf(c)] = c
    BY <1>3, <1>6, <1>9, OwedTypes, ConstantsAssumption DEF AwaitedIn
  <2>2. ASSUME NEW t \in Sessions, counters'.awaiting[t] = c
        PROVE  FALSE
    <3>1. t # s /\ k.awaiting[t] = c
      BY <1>4, <1>9, <2>2
    <3> QED
      BY <1>3, <2>1, <3>1, AwaitedOnce
  <2> QED
    BY <1>1, <1>3, <2>1, <2>2, FlagLifted
<1>10. ASSUME NEW c \in Owed'
       PROVE  counters'.awaiting[SessionOf(c)] = c
  <2>1. CASE c = r
    BY <1>3, <1>4, <2>1
  <2>2. CASE c # r
    <3>1. c \in Owed /\ SessionOf(c) # s
      BY <1>6, <1>9, <2>2
    <3>2. SessionOf(c) \in Sessions /\ k.awaiting[SessionOf(c)] = c
      BY <1>3, <3>1, OwedTypes DEF AwaitedIn
    <3> QED
      BY <1>4, <3>1, <3>2
  <2> QED
    BY <2>1, <2>2
<1>11. AwaitedIn(counters)'
  BY <1>8, <1>10 DEF AwaitedIn
<1>12. ASSUME NEW q \in Procs, pc'[q] \in Copying
       PROVE  AwaitedIn(cview[q])'
  <2>1. q # r /\ pc[q] \in Copying /\ cview'[q] = cview[q]
    BY <1>1, <1>5, <1>12 DEF Copying, Typed, Locals
  <2>2. r \notin Owed'
    BY <1>7, <2>1 DEF others, Others
  <2> QED
    BY <1>6, <1>8, <2>1, <2>2 DEF AwaitedIn, Watching
<1>13. ASSUME NEW q \in Reviews
       PROVE  Heeds(q)'
  <2>1. CASE q = r
    BY <1>1, <2>1 DEF Heeds, Checked
  <2>2. CASE q # r
    <3>1. q \in Procs /\ pc'[q] = pc[q] /\ seen'[q] = seen[q]
      BY <1>1, <1>5, <2>2 DEF Typed, Locals, Procs
    <3>2. SessionOf(q) = s /\ pc[q] \in Checked => r \notin Owed'
      BY <1>7, <2>2, <3>1 DEF others, Others
    <3> QED
      BY <1>6, <1>8, <3>1, <3>2 DEF Heeds, Watching
  <2> QED
    BY <2>1, <2>2
<1>14. \A x \in Shows : pc'[x] = "idle" => shown'[x] = None
  BY <1>1, <1>5 DEF Watching, Typed, Locals, Procs
<1> QED
  BY <1>11, <1>12, <1>13, <1>14 DEF Watching

LEMMA WatchingNext == Typed /\ Referring /\ Watching /\ [Next]_vars => Watching'
<1> SUFFICES ASSUME Typed, Referring, Watching, [Next]_vars PROVE Watching'
  OBVIOUS
<1>0. Typed' /\ counters \in Counters /\ AwaitedIn(counters)
  BY TypedNext DEF Watching, Typed, Shared
<1>1. ASSUME UNCHANGED vars \/ Tick \/ \E c \in Reviews : Expire(c)
      PROVE  Watching'
  <2>1. /\ UNCHANGED <<counters, pc, event, shown, seen, cview, woken, lifted, amid>>
        /\ live' \subseteq live
    BY <1>1 DEF vars, Tick, Expire, views, args, history
  <2>2. Owed' \subseteq Owed
    BY <2>1 DEF Owed, Guarded
  <2> QED
    BY <2>1, <2>2 DEF Watching, AwaitedIn, Heeds, SessionOf
<1>2. ASSUME NEW p \in Procs, Passive(p) PROVE Watching'
  <2>1. Moved(p) /\ counters' = counters /\ event' = event /\ shown' = shown
    BY <1>2, PassiveChange DEF Moved, args
  <2>2. pc'[p] # "wake"
    <3>1. CASE p \in Reviews
      BY <1>2, <3>1 DEF Passive, Walks, ReviewReads, NoSignal, ReadAwaited, StillAwaiting, NotAwaiting,
         PassLimits, Limited, Invoke, ReadToClear, ReadToNote, ReadToQueue, ReadToAwait, ShowReads,
         ReadCandidate, ReadToDrop, Goto, Typed, Locals
    <3>2. CASE p \in Shows
      BY <1>2, <3>2, ConstantsAssumption DEF Passive, ShowReads, ReadCandidate, ReadToClear, ReadToDrop,
         Goto, Typed, Locals
    <3> QED
      BY <3>1, <3>2 DEF Procs
  <2>3. Owed' \subseteq Owed
    BY <2>1, <2>2, OwedKept DEF Moved, history
  <2>4. \A c \in Owed' : counters'.awaiting[SessionOf(c)] = c
    BY <1>0, <2>1, <2>3 DEF AwaitedIn
  <2>5. /\ pc'[p] \in Copying => cview'[p] = counters
        /\ \A q \in Procs \ {p} : cview'[q] = cview[q]
    BY <2>1 DEF Moved, Typed, Locals
  <2>6. \A r \in Reviews \ {p} : seen'[r] = seen[r]
    <3>1. CASE p \in Reviews /\ Walks(p)
      BY <3>1 DEF Walks, NoSignal, ReadAwaited, StillAwaiting, NotAwaiting, PassLimits, Limited, Invoke,
                  Typed, Locals
    <3>2. CASE ~ (p \in Reviews /\ Walks(p))
      BY <1>2, <3>2, ReviewReadsChange, ShowReadsChange DEF Passive
    <3> QED
      BY <3>1, <3>2
  <2>7. ASSUME NEW c \in Owed', p \in Reviews, pc'[p] \in Checked, SessionOf(c) = event'[p].session
        PROVE  pc'[p] = "record" /\ seen'[p] = c
    BY <1>2, <2>1, <2>3, <2>7, WalksHeed DEF SessionOf
  <2> QED
    BY <1>0, <2>1, <2>3, <2>4, <2>5, <2>6, <2>7, WatchingStep DEF Moved
<1>3. ASSUME NEW p \in Procs, ClearsFlag(p) PROVE Watching'
  BY <1>0, <1>3, ClearsWatching
<1>4. ASSUME NEW r \in Reviews, WriteNoted(r) \/ WriteAwaiting(r) PROVE Watching'
  BY <1>0, <1>4, NotedWatching, AwaitingWatching
<1>5. ASSUME NEW p \in Procs, NEW to, pc' = [pc EXCEPT ![p] = to],
             to \notin {"idle"} \cup Checked \cup Copying,
             Owed' \subseteq Owed, counters' = counters, seen' = seen,
             \A r \in Reviews \ {p} : event'[r] = event[r],
             \A x \in Shows \ {p} : shown'[x] = shown[x],
             \A q \in Procs \ {p} : cview'[q] = cview[q]
      PROVE  Watching'
  <2>1. pc' = [pc EXCEPT ![p] = pc'[p]] /\ pc'[p] = to
    BY <1>5 DEF Typed, Locals
  <2>2. \A c \in Owed' : counters'.awaiting[SessionOf(c)] = c
    BY <1>0, <1>5 DEF AwaitedIn
  <2> QED
    BY <1>0, <1>5, <2>1, <2>2, WatchingStep
<1>6. ASSUME NEW r \in Reviews, NEW s \in Sessions, NEW k \in Signals, Stop(r, s, k)
      PROVE  Watching'
  <2>1. /\ r \in Procs /\ pc[r] = "idle" /\ pc' = [pc EXCEPT ![r] = "awaited"] /\ pc'[r] = "awaited"
        /\ \A q \in Reviews \ {r} : event'[q] = event[q]
        /\ UNCHANGED <<counters, live, seen, shown, cview, woken, lifted, amid>>
    BY <1>6 DEF Stop, Goto, views, history, Procs, Typed, Locals
  <2>2. Owed' \subseteq Owed
    BY <2>1, OwedKept
  <2> QED
    BY <1>5, <2>1, <2>2 DEF Copying, Checked
<1>7. ASSUME NEW r \in Reviews, StoreCandidate(r) \/ WriteQueued(r) \/ DiscardTurn(r) \/ Wake(r)
      PROVE  Watching'
  <2>1. /\ r \in Procs
        /\ \/ pc[r] = "store" /\ pc' = [pc EXCEPT ![r] = "queue"]
              /\ live' = live \cup {r} /\ woken' = woken
           \/ pc[r] = "queueing" /\ pc' = [pc EXCEPT ![r] = "discard"]
              /\ live' = live /\ woken' = woken
           \/ pc[r] = "discard" /\ pc' = [pc EXCEPT ![r] = "await"]
              /\ live' = live /\ woken' = woken
           \/ pc[r] = "discardlast" /\ pc' = [pc EXCEPT ![r] = "done"]
              /\ live' = live /\ woken' = woken
           \/ pc[r] = "wake" /\ pc' = [pc EXCEPT ![r] = "done"]
              /\ live' = live /\ woken' = woken \cup {r}
        /\ UNCHANGED <<counters, event, shown, seen, lifted>>
    BY <1>7 DEF StoreCandidate, WriteQueued, DiscardTurn, Wake, Goto, args, history, Procs
  <2>2. amid'["flagged"] = amid["flagged"]
    BY <1>7, WriteQueuedChange DEF StoreCandidate, DiscardTurn, Wake, history
  <2>3. \A q \in Procs \ {r} : cview'[q] = cview[q]
    BY <1>7, <2>1 DEF StoreCandidate, WriteQueued, DiscardTurn, Wake, Forget, views, Typed, Locals
  <2>4. pc[r] = "store" => r \notin woken
    BY <2>1 DEF Typed, Shared, At, Later
  <2>5. \A c \in live : c \in Procs
    BY DEF Typed, Shared, Procs
  <2>6. Owed' \subseteq Owed
    BY <2>1, <2>2, <2>4, <2>5 DEF Owed, Guarded, Typed, Locals
  <2>7. \E to \in {"queue", "discard", "await", "done"} : pc' = [pc EXCEPT ![r] = to]
    BY <2>1
  <2> QED
    BY <1>5, <2>1, <2>3, <2>6, <2>7 DEF Copying, Checked
<1>8. ASSUME NEW x \in Shows, NEW c \in Askable, Show(x, c)
      PROVE  Watching'
  <2>1. /\ x \in Procs /\ pc[x] = "idle" /\ pc' = [pc EXCEPT ![x] = "show"] /\ pc'[x] = "show"
        /\ shown' = [shown EXCEPT ![x] = c] /\ shown[x] = None
        /\ UNCHANGED <<counters, live, seen, event, cview, woken, lifted, amid>>
    BY <1>8 DEF Show, Goto, views, history, Procs, Typed, Locals, Watching
  <2>2. \A d \in live : d \in Procs /\ d # None
    BY ConstantsAssumption DEF Typed, Shared, Procs
  <2>3. Owed' \subseteq Owed
    BY <2>1, <2>2 DEF Owed, Guarded, Typed, Locals
  <2>4. \A y \in Shows \ {x} : shown'[y] = shown[y]
    BY <2>1 DEF Typed, Locals
  <2> QED
    BY <1>5, <2>1, <2>3, <2>4 DEF Copying, Checked
<1>9. ASSUME NEW p \in Procs, (p \in Shows /\ WriteDropped(p)) \/ Kill(p)
      PROVE  Watching'
  <2>1. /\ pc' = [pc EXCEPT ![p] = "done"] /\ pc'[p] = "done"
        /\ UNCHANGED <<counters, live, seen, event, shown, woken, lifted, amid>>
    BY <1>9 DEF WriteDropped, Kill, Goto, args, history, Typed, Locals
  <2>2. \A q \in Procs \ {p} : cview'[q] = cview[q]
    BY <1>9 DEF WriteDropped, Kill, Forget, Typed, Locals
  <2>3. Owed' \subseteq Owed
    BY <2>1, OwedKept
  <2> QED
    BY <1>5, <2>1, <2>2, <2>3 DEF Copying, Checked
<1> QED
  BY <1>1, <1>2, <1>3, <1>4, <1>6, <1>7, <1>8, <1>9, NextCases DEF Procs

\* However the hooks overlap, across days, and whichever is killed: no review, not
\* even a forced one, goes ahead in a session that was woken for a candidate that
\* still waits for its user -- unless the session's flag was put up amid a review
\* or a rewriting of the counters, or taken down for another event.
THEOREM GuardHolds == Spec => NotReviewedWhileAwaiting
<1>1. Init => Watching
  BY DEF Init, Watching, AwaitedIn, Owed, Heeds, Copying, Checked, Procs
<1>2. Spec => [](Typed /\ Watching)
  <2>1. Init => Referring
    BY DEF Init, Referring, Referred, ReferredIn, Copying
  <2>2. Spec => []Referring
    BY <2>1, AlwaysTyped, ReferringNext, PTL DEF Spec
  <2> QED
    BY <1>1, <2>2, AlwaysTyped, WatchingNext, PTL DEF Spec
<1>3. ASSUME Typed, Watching, [Next]_vars, NEW b \in billed' \ billed
      PROVE  ~ \E c \in woken \cap live : Guarded(c) /\ SessionOf(c) = SessionOf(b.review)
  <2>1. PICK r \in Reviews : WriteNoted(r)
    <3>1. CASE UNCHANGED vars \/ Tick \/ \E c \in Reviews : Expire(c)
      BY <1>3, <3>1 DEF vars, Tick, Expire, history
    <3>2. ASSUME NEW p \in Procs, Passive(p) \/ ClearsFlag(p) \/ Kill(p)
          PROVE  billed' = billed
      <4>1. CASE Passive(p)
        BY <1>3, <4>1, PassiveChange DEF Moved, history
      <4>2. CASE ClearsFlag(p)
        BY <1>3, <4>2, ClearsFlagChange
      <4>3. CASE Kill(p)
        BY <4>3 DEF Kill, history
      <4> QED
        BY <3>2, <4>1, <4>2, <4>3
    <3>3. ASSUME NEW r \in Reviews, (\E s \in Sessions, k \in Signals : Stop(r, s, k))
                   \/ StoreCandidate(r) \/ WriteQueued(r) \/ DiscardTurn(r) \/ WriteAwaiting(r) \/ Wake(r)
          PROVE  billed' = billed
      BY <3>3 DEF Stop, StoreCandidate, WriteQueued, DiscardTurn, WriteAwaiting, Wake, history
    <3>4. ASSUME NEW x \in Shows, (\E c \in Askable : Show(x, c)) \/ WriteDropped(x)
          PROVE  billed' = billed
      BY <3>4 DEF Show, WriteDropped, history
    <3> QED
      BY <1>3, <3>1, <3>2, <3>3, <3>4, NextCases
  <2>2. b.review = r /\ pc[r] = "noting"
    BY <1>3, <2>1 DEF WriteNoted, Goto
  <2> QED
    BY <1>3, <2>2, HeedsAt DEF Owed
<1>4. Typed /\ Watching /\ [Next]_vars =>
        [\A b \in billed' \ billed :
           ~ \E c \in woken \cap live : Guarded(c) /\ SessionOf(c) = SessionOf(b.review)]_vars
  BY <1>3
<1> QED
  BY <1>2, <1>4, PTL DEF Spec, NotReviewedWhileAwaiting
=============================================================================
