---------------------------- MODULE DurableProofs ----------------------------
(***************************************************************************)
(* Theorems about Durable, for every value of its constants: any number of *)
(* applies, kills and power losses.                                        *)
(*                                                                         *)
(* The invariants are proved in layers, each from those before it: Typed   *)
(* (what each path may hold), Backed (the backup of the mutation at work), *)
(* Marked (its marker) and Decided (what reconcile finds).                 *)
(***************************************************************************)
EXTENDS Durable, SequenceTheorems, TLAPS

-----------------------------------------------------------------------------
(* Inductive invariants.                                                   *)

\* What a line of the journal may be.
Line == Mutations \cup {Torn, Garbage}

Typed ==
  /\ seen \in [Files -> Values] /\ maybe \in [Files -> SUBSET Values]
  /\ \A f \in Files : seen[f] \in maybe[f]
  /\ maybe[Target] \subseteq 0 .. last
  /\ \A f \in {Marker, Fingerprints} : maybe[f] \subseteq (1 .. last) \cup {None}
  /\ flushed \in BOOLEAN
  /\ lines \in Seq(Line) /\ safe \in 0 .. Len(lines)
  /\ last \in Contents /\ pre \in [Mutations -> Contents]
  /\ kills \in 0 .. MaxKills /\ losses \in 0 .. MaxLosses
  /\ last = 0 => pc = <<"idle">>
  /\ pc \in {<<"reconcile", "journal">>, <<"reconcile", "clear">>} => seen[Marker] # None
  /\ pc = <<"backup", "sync">> => seen[last] = seen[Target]
  /\ \A f \in Written : pc = <<f, "replace">> => flushed

\* From the first step of an apply to the rename that installs its content.
Preparing ==
  {<<"backup", "copy">>, <<"backup", "sync">>, <<Marker, "temp">>, <<Marker, "replace">>,
   <<Marker, "sync">>, <<Target, "temp">>, <<Target, "replace">>}

\* Nothing survives of a mutation that has not begun; one that has not installed
\* anything works on its preimage, and from the sync on its backup is whole.
Backed ==
  /\ BackupWhole
  /\ \A m \in Mutations : m > last => maybe[m] = {None}
  /\ pc \in Preparing => last \notin maybe[Target] /\ seen[Target] = pre[last]
  /\ pc = <<"backup", "copy">> => maybe[last] = {None}
  /\ pc = <<"backup", "sync">> => maybe[last] \subseteq {pre[last], None, Torn}
  /\ pc \in Preparing \ {<<"backup", "sync">>} => maybe[last] \subseteq {pre[last], None}

\* From the sync of its entry to its removal, the marker is what survives.
Guarding ==
  {<<Target, "temp">>, <<Target, "replace">>, <<Target, "sync">>, <<"journal">>, <<"clear">>}

Marked ==
  /\ pc = <<Marker, "sync">> => seen[Marker] = last
  /\ pc \in Guarding => maybe[Marker] = {last}

\* Without kills only a rename that is not yet synced leaves the target open, and
\* whichever marker survives, the target is at that mutation's preimage or its
\* post-image.
Decided ==
  kills = 0 =>
    /\ pc # <<"blocked">>
    /\ pc # <<Target, "sync">> => maybe[Target] = {seen[Target]}
    /\ \A m \in Mutations : m \in maybe[Marker] => maybe[Target] \subseteq {m, pre[m]}

-----------------------------------------------------------------------------
(* The paths, and what a power loss may leave.                             *)

LEMMA Paths ==
  /\ Target \in Written /\ Marker \in Written /\ Fingerprints \in Written
  /\ Written \subseteq Files /\ Mutations \subseteq Files
  /\ Mutations \subseteq Nat /\ Contents \subseteq Nat /\ Written \cap Nat = {}
  /\ None \notin Contents /\ None \notin Mutations /\ Torn \notin Contents /\ None # Torn
BY ConstantsAssumption, NamesDistinct DEF Written, Files, Mutations, Contents

\* Whatever was torn or lost, what is there was among what might be, and nothing
\* else may be there any more.
LEMMA Lost ==
  ASSUME Typed, PowerLoss
  PROVE  /\ seen' \in [Files -> Values] /\ maybe' \in [Files -> SUBSET Values]
         /\ \A f \in Files : seen'[f] \in maybe[f] /\ maybe'[f] = {seen'[f]}
<1>1. PICK t \in maybe[Target], k \in maybe[Marker], p \in maybe[Fingerprints],
           b \in {c \in [Mutations -> Values] : \A m \in Mutations : c[m] \in maybe[m]} :
        seen' = [f \in Files |-> CASE f = Target -> t [] f = Marker -> k
                                    [] f = Fingerprints -> p [] OTHER -> b[f]]
  BY DEF PowerLoss
<1>2. /\ seen'[Target] = t /\ seen'[Marker] = k /\ seen'[Fingerprints] = p
      /\ \A m \in Mutations : seen'[m] = b[m]
  BY <1>1, Paths, NamesDistinct
<1>3. \A f \in Files : seen'[f] \in maybe[f]
  BY <1>2 DEF Files, Written
<1>4. maybe \in [Files -> SUBSET Values]
  BY DEF Typed
<1>5. seen' = [f \in Files |-> seen'[f]]
  BY <1>1
<1>6. seen' \in [Files -> Values]
  BY <1>3, <1>4, <1>5
<1>7. maybe' = [f \in Files |-> {seen'[f]}]
  BY DEF PowerLoss
<1> QED
  BY <1>3, <1>6, <1>7

LEMMA AppendedLine ==
  ASSUME Typed, NEW m \in Mutations
  PROVE  /\ Appended(m) \in Seq(Line)
         /\ (IF safe = Len(Appended(m)) THEN safe - 1 ELSE safe) \in 0 .. Len(Appended(m))
<1>1. lines \in Seq(Line) /\ safe \in 0 .. Len(lines) /\ Len(lines) \in Nat
  BY DEF Typed
<1>2. /\ Append(lines, m) \in Seq(Line) /\ Len(Append(lines, m)) = Len(lines) + 1
  BY <1>1 DEF Line
<1>3. ASSUME lines # <<>>
      PROVE  /\ Append(Front(lines), Garbage) \in Seq(Line)
             /\ Len(Append(Front(lines), Garbage)) = Len(lines) /\ Len(lines) > 0
  <2>1. Len(lines) > 0
    BY <1>1, <1>3, EmptySeq
  <2>2. Len(lines) - 1 \in Nat
    BY <1>1, <2>1
  <2>3. PICK n \in Nat : n = Len(lines) - 1
    BY <2>2
  <2>4. \A i \in 1 .. n : lines[i] \in Line
    BY <1>1, <2>3
  <2>5. SubSeq(lines, 1, n) \in Seq(Line) /\ Len(SubSeq(lines, 1, n)) = n
    BY <2>4, SubSeqProperties
  <2>6. Front(lines) = SubSeq(lines, 1, n)
    BY <2>3 DEF Front
  <2> QED
    BY <1>1, <2>1, <2>3, <2>5, <2>6 DEF Line
<1> QED
  BY <1>1, <1>2, <1>3 DEF Appended

\* Where the writing of a file goes on.
LEMMA AfterSteps ==
  ASSUME NEW f \in Written
  PROVE  /\ f = Marker => After(f) = <<Target, "temp">>
         /\ f = Target => After(f) = <<"journal">>
         /\ f = Fingerprints => After(f) = <<"idle">>
BY NamesDistinct DEF After

-----------------------------------------------------------------------------
(* Typed.                                                                  *)

\* What may survive is less than it was.
Survived ==
  /\ seen' \in [Files -> Values] /\ maybe' \in [Files -> SUBSET Values]
  /\ \A f \in Files : seen'[f] \in maybe'[f] /\ maybe'[f] \subseteq maybe[f]

\* v is put at f, where from now on w may survive too.
Put(f, v, w) ==
  /\ seen' = [seen EXCEPT ![f] = v]
  /\ maybe' = [maybe EXCEPT ![f] = @ \cup w]

\* Most steps only narrow what may survive.
Narrowing ==
  \/ UNCHANGED vars \/ Begin \/ Reconcile \/ SyncBackup \/ Journal \/ JournalReconciled \/ Kill
  \/ WriteBack \/ \E f \in Written : WriteTemp(f) \/ SyncDir(f)

LEMMA NarrowingChange ==
  ASSUME Typed, Narrowing
  PROVE  Survived /\ seen' = seen
<1> USE DEF Typed, Survived
<1>1. CASE UNCHANGED <<seen, maybe>>
  BY <1>1
<1>2. CASE SyncBackup
  <2>1. seen[last] # Torn
    BY <1>2, Paths, NamesDistinct DEF SyncBackup, Goto, Contents
  <2> QED
    BY <1>2, <2>1 DEF SyncBackup
<1>3. CASE WriteBack
  BY <1>3 DEF WriteBack, Synced
<1>4. ASSUME NEW f \in Written, SyncDir(f)
      PROVE  Survived /\ seen' = seen
  <2>1. CASE UNCHANGED maybe
    BY <1>4, <2>1 DEF SyncDir
  <2>2. CASE maybe' = Synced(Directory(f))
    BY <1>4, <2>2 DEF SyncDir, Synced
  <2> QED
    BY <1>4, <2>1, <2>2 DEF SyncDir
<1>5. UNCHANGED vars \/ Begin \/ Reconcile \/ Journal \/ JournalReconciled \/ Kill
        => UNCHANGED <<seen, maybe>>
  BY DEF vars, Begin, Reconcile, Journal, JournalReconciled, AppendLine, Kill
<1>6. \A f \in Written : WriteTemp(f) => UNCHANGED <<seen, maybe>>
  BY DEF WriteTemp
<1> QED
  BY <1>1, <1>2, <1>3, <1>4, <1>5, <1>6 DEF Narrowing

LEMMA Change ==
  ASSUME Typed, [Next]_vars
  PROVE  \/ Narrowing /\ Survived /\ seen' = seen
         \/ PowerLoss /\ Survived
         \/ CopyBackup /\ Put(last, seen[Target], {Torn, seen[Target]})
         \/ \E f \in Written : Replace(f) /\ Put(f, last, {last})
         \/ (Clear \/ ClearReconciled) /\ Put(Marker, None, {None})
<1>1. PowerLoss => Survived
  BY Lost DEF Survived
<1>2. CopyBackup => Put(last, seen[Target], {Torn, seen[Target]})
  BY DEF CopyBackup, Put
<1>3. ASSUME NEW f \in Written, Replace(f)
      PROVE  Put(f, last, {last})
  <2>1. flushed
    BY <1>3 DEF Replace, Goto, Typed
  <2> QED
    BY <1>3, <2>1 DEF Replace, Put
<1>4. Clear \/ ClearReconciled => Put(Marker, None, {None})
  BY DEF Clear, ClearReconciled, ClearMarker, Put
<1>5. \/ Narrowing \/ PowerLoss \/ CopyBackup \/ Clear \/ ClearReconciled
      \/ \E f \in Written : Replace(f)
  BY DEF Next, Apply, Narrowing
<1> QED
  BY <1>1, <1>2, <1>3, <1>4, <1>5, NarrowingChange

\* The journal and the counters.
LEMMA TypedRecords ==
  ASSUME Typed, [Next]_vars
  PROVE  /\ flushed' \in BOOLEAN
         /\ lines' \in Seq(Line) /\ safe' \in 0 .. Len(lines')
         /\ last' \in Contents /\ pre' \in [Mutations -> Contents]
         /\ kills' \in 0 .. MaxKills /\ losses' \in 0 .. MaxLosses
         /\ last <= last'
<1>1. flushed' \in BOOLEAN
  BY DEF Typed, vars, Next, Apply, Reconcile, JournalReconciled, ClearReconciled, Begin, CopyBackup,
     SyncBackup, WriteTemp, Replace, SyncDir, Journal, Clear, AppendLine, ClearMarker, Kill,
     WriteBack, PowerLoss
<1>2. lines' \in Seq(Line) /\ safe' \in 0 .. Len(lines')
  <2>1. CASE Journal
    <3>1. last \in Mutations
      BY <2>1 DEF Typed, Journal, AppendLine, Goto, Contents, Mutations
    <3> QED
      BY <2>1, <3>1, AppendedLine DEF Journal, AppendLine
  <2>2. CASE JournalReconciled
    <3>1. seen[Marker] \in Mutations
      <4>1. seen[Marker] \in (1 .. last) \cup {None} /\ seen[Marker] # None
        BY <2>2, Paths DEF Typed, JournalReconciled
      <4>2. 1 .. last \subseteq Mutations
        BY ConstantsAssumption DEF Typed, Contents, Mutations
      <4> QED
        BY <4>1, <4>2
    <3> QED
      BY <2>2, <3>1, AppendedLine DEF JournalReconciled, AppendLine
  <2>3. CASE PowerLoss
    <3>1. PICK n \in safe .. Len(lines) :
            \/ lines' = SubSeq(lines, 1, n)
            \/ lines' = Append(SubSeq(lines, 1, n), Torn)
      BY <2>3 DEF PowerLoss
    <3>2. n \in Nat /\ \A i \in 1 .. n : lines[i] \in Line
      BY DEF Typed
    <3>3. SubSeq(lines, 1, n) \in Seq(Line)
      BY <3>2, SubSeqProperties
    <3>4. lines' \in Seq(Line)
      BY <3>1, <3>3 DEF Line
    <3> QED
      BY <2>3, <3>4 DEF PowerLoss
  <2>4. CASE WriteBack \/ UNCHANGED <<lines, safe>>
    BY <2>4 DEF Typed, WriteBack
  <2> QED
    BY <2>1, <2>2, <2>3, <2>4 DEF vars, Next, Apply, Reconcile, ClearReconciled, Begin, CopyBackup,
       SyncBackup, WriteTemp, Replace, SyncDir, Clear, ClearMarker, Kill
<1>3. last' \in Contents /\ pre' \in [Mutations -> Contents] /\ last <= last'
  <2>1. CASE Begin
    BY <2>1, Paths, ConstantsAssumption DEF Typed, Begin, Contents, Mutations
  <2>2. CASE UNCHANGED <<last, pre>>
    BY <2>2 DEF Typed, Contents
  <2> QED
    BY <2>1, <2>2 DEF vars, Next, Apply, Reconcile, JournalReconciled, ClearReconciled, CopyBackup,
       SyncBackup, WriteTemp, Replace, SyncDir, Journal, Clear, AppendLine, ClearMarker, Kill,
       WriteBack, PowerLoss
<1>4. kills' \in 0 .. MaxKills /\ losses' \in 0 .. MaxLosses
  <2>1. CASE Kill \/ PowerLoss
    BY <2>1, ConstantsAssumption DEF Typed, Kill, PowerLoss
  <2>2. CASE UNCHANGED <<kills, losses>>
    BY <2>2 DEF Typed
  <2> QED
    BY <2>1, <2>2 DEF vars, Next, Apply, Reconcile, JournalReconciled, ClearReconciled, Begin,
       CopyBackup, SyncBackup, WriteTemp, Replace, SyncDir, Journal, Clear, AppendLine,
       ClearMarker, WriteBack
<1> QED
  BY <1>1, <1>2, <1>3, <1>4

\* What each path may hold.
LEMMA TypedFiles ==
  ASSUME Typed, [Next]_vars
  PROVE  /\ seen' \in [Files -> Values] /\ maybe' \in [Files -> SUBSET Values]
         /\ \A f \in Files : seen'[f] \in maybe'[f]
         /\ maybe'[Target] \subseteq 0 .. last'
         /\ \A f \in {Marker, Fingerprints} : maybe'[f] \subseteq (1 .. last') \cup {None}
<1>1. 0 .. last \subseteq 0 .. last' /\ 1 .. last \subseteq 1 .. last'
  <2>1. last \in Nat /\ last' \in Nat /\ last <= last'
    BY TypedRecords, Paths DEF Typed
  <2> QED
    BY <2>1
<1>2. CASE Survived
  <2>1. maybe'[Target] \subseteq maybe[Target]
    BY <1>2, Paths DEF Survived
  <2>2. \A f \in {Marker, Fingerprints} : maybe'[f] \subseteq maybe[f]
    BY <1>2, Paths DEF Survived
  <2>3. /\ seen' \in [Files -> Values] /\ maybe' \in [Files -> SUBSET Values]
        /\ \A f \in Files : seen'[f] \in maybe'[f]
    BY <1>2 DEF Survived
  <2>4. maybe'[Target] \subseteq 0 .. last'
    BY <1>1, <2>1 DEF Typed
  <2>5. \A f \in {Marker, Fingerprints} : maybe'[f] \subseteq (1 .. last') \cup {None}
    BY <1>1, <2>2 DEF Typed
  <2> QED
    BY <2>3, <2>4, <2>5
<1>3. ASSUME NEW f \in Files, NEW v \in Values, NEW w \in SUBSET Values, v \in w, Put(f, v, w),
             f = Target => w \subseteq 0 .. last,
             f \in {Marker, Fingerprints} => w \subseteq (1 .. last) \cup {None}
      PROVE  /\ seen' \in [Files -> Values] /\ maybe' \in [Files -> SUBSET Values]
             /\ \A g \in Files : seen'[g] \in maybe'[g]
             /\ maybe'[Target] \subseteq 0 .. last'
             /\ \A g \in {Marker, Fingerprints} : maybe'[g] \subseteq (1 .. last') \cup {None}
  <2>1. \A g \in Files : /\ seen'[g] = IF g = f THEN v ELSE seen[g]
                         /\ maybe'[g] = IF g = f THEN maybe[g] \cup w ELSE maybe[g]
    BY <1>3 DEF Typed, Put
  <2>2. seen' \in [Files -> Values] /\ maybe' \in [Files -> SUBSET Values]
    BY <1>3 DEF Typed, Put
  <2>3. \A g \in Files : seen'[g] \in maybe'[g]
    BY ZenonT(60), <1>3, <2>1 DEF Typed
  <2>4. maybe'[Target] \subseteq 0 .. last'
    BY <1>1, <1>3, <2>1, Paths DEF Typed
  <2>5. ASSUME NEW g \in {Marker, Fingerprints}
        PROVE  maybe'[g] \subseteq (1 .. last') \cup {None}
    <3>1. maybe[g] \subseteq (1 .. last) \cup {None}
      BY DEF Typed
    <3> QED
      BY <1>1, <1>3, <2>1, <3>1, Paths
  <2> QED
    BY <2>2, <2>3, <2>4, <2>5
<1>4. CASE CopyBackup
  <2>1. last \in Mutations
    BY <1>4 DEF Typed, CopyBackup, Goto, Contents, Mutations
  <2>2. last \in Files /\ last \notin Written
    BY <2>1, Paths
  <2>3. seen[Target] \in Values /\ {Torn, seen[Target]} \in SUBSET Values
    BY Paths DEF Typed, Values
  <2>4. Put(last, seen[Target], {Torn, seen[Target]})
    BY <1>4 DEF CopyBackup, Put
  <2> QED
    BY <1>3, <2>2, <2>3, <2>4 DEF Written
<1>5. ASSUME NEW f \in Written, Replace(f)
      PROVE  /\ last \in 1 .. last /\ last \in Contents /\ last \in 0 .. last
             /\ Put(f, last, {last})
  <2>1. last \in Contents /\ last # 0 /\ flushed
    BY <1>5 DEF Typed, Replace, Goto
  <2> QED
    BY <1>5, <2>1 DEF Contents, Replace, Put
<1>6. ASSUME NEW f \in Written, Replace(f)
      PROVE  /\ seen' \in [Files -> Values] /\ maybe' \in [Files -> SUBSET Values]
             /\ \A g \in Files : seen'[g] \in maybe'[g]
             /\ maybe'[Target] \subseteq 0 .. last'
             /\ \A g \in {Marker, Fingerprints} : maybe'[g] \subseteq (1 .. last') \cup {None}
  BY <1>3, <1>5, <1>6, Paths DEF Values
<1>7. CASE Put(Marker, None, {None})
  BY <1>3, <1>7, Paths, NamesDistinct DEF Values
<1> QED
  BY <1>2, <1>4, <1>6, <1>7, Change

\* The steps, and what they say.
LEMMA TypedSteps ==
  ASSUME Typed, [Next]_vars
  PROVE  /\ last' = 0 => pc' = <<"idle">>
         /\ pc' \in {<<"reconcile", "journal">>, <<"reconcile", "clear">>} => seen'[Marker] # None
         /\ pc' = <<"backup", "sync">> => seen'[last'] = seen'[Target]
         /\ \A f \in Written : pc' = <<f, "replace">> => flushed'
<1>0. /\ last = 0 => pc = <<"idle">>
      /\ \A f \in Written : pc = <<f, "replace">> => flushed
  BY DEF Typed
<1>1. CASE UNCHANGED vars
  BY <1>1 DEF Typed, vars
<1>2. CASE Reconcile
  <2>1. last # 0
    <3>1. seen[Marker] \in (1 .. last) \cup {None} /\ seen[Marker] # None
      BY <1>2, Paths DEF Typed, Reconcile
    <3> QED
      BY <3>1
  <2> QED
    BY <1>2, <2>1, NamesDistinct DEF Reconcile, Written
<1>3. CASE JournalReconciled
  BY <1>3, NamesDistinct DEF Typed, JournalReconciled, AppendLine, Goto, Written
<1>4. CASE ClearReconciled
  BY <1>0, <1>4, NamesDistinct DEF ClearReconciled, ClearMarker, Goto, Written
<1>5. CASE Begin
  BY <1>5, NamesDistinct DEF Typed, Begin, Contents, Written
<1>6. CASE CopyBackup
  <2>1. last \in Mutations /\ last # Target
    BY <1>0, <1>6, NamesDistinct DEF Typed, CopyBackup, Goto, Contents, Mutations
  <2> QED
    BY <1>0, <1>6, <2>1, Paths, NamesDistinct DEF Typed, CopyBackup, Goto, Written
<1>7. CASE SyncBackup
  BY <1>0, <1>7, NamesDistinct DEF SyncBackup, Goto, Written
<1>8. CASE \E f \in Written : WriteTemp(f) \/ Replace(f)
  <2>1. PICK f \in Written : WriteTemp(f) \/ Replace(f)
    BY <1>8
  <2>2. /\ last' = last /\ pc # <<"idle">>
        /\ \/ pc' = <<f, "replace">> /\ flushed' = TRUE
           \/ pc' = <<f, "sync">>
    BY <2>1 DEF WriteTemp, Replace, Goto
  <2> QED
    BY <1>0, <2>2, NamesDistinct DEF Written
<1>9. CASE \E f \in Written : SyncDir(f)
  <2>1. PICK f \in Written : SyncDir(f)
    BY <1>9
  <2>2. /\ last' = last /\ pc # <<"idle">>
        /\ pc' \in {<<Target, "temp">>, <<"journal">>, <<"idle">>}
    BY <2>1, AfterSteps DEF SyncDir, Goto, Written
  <2> QED
    BY <1>0, <2>2, NamesDistinct DEF Written
<1>10. CASE Journal \/ Clear
  <2>1. /\ last' = last /\ pc # <<"idle">>
        /\ pc' \in {<<"clear">>, <<Fingerprints, "temp">>}
    BY <1>10 DEF Journal, AppendLine, Clear, ClearMarker, Goto
  <2> QED
    BY <1>0, <2>1, NamesDistinct DEF Written
<1>11. CASE Kill \/ PowerLoss
  <2>1. pc' = <<"idle">>
    BY <1>11 DEF Kill, PowerLoss
  <2> QED
    BY <2>1
<1>12. CASE WriteBack
  BY <1>12 DEF Typed, WriteBack
<1> QED
  BY <1>1, <1>2, <1>3, <1>4, <1>5, <1>6, <1>7, <1>8, <1>9, <1>10, <1>11, <1>12 DEF Next, Apply

LEMMA TypedNext ==
  ASSUME Typed, [Next]_vars
  PROVE  Typed'
BY TypedRecords, TypedFiles, TypedSteps DEF Typed

LEMMA InitTyped == Init => Typed
<1> SUFFICES ASSUME Init PROVE Typed
  OBVIOUS
<1>1. /\ seen \in [Files -> Values] /\ maybe \in [Files -> SUBSET Values]
      /\ \A f \in Files : seen[f] \in maybe[f]
  BY ConstantsAssumption DEF Init, Values, Contents
<1>2. maybe[Target] \subseteq 0 .. last
  BY Paths DEF Init
<1>3. \A f \in {Marker, Fingerprints} : maybe[f] \subseteq (1 .. last) \cup {None}
  BY Paths, NamesDistinct DEF Init
<1>4. lines \in Seq(Line) /\ safe \in 0 .. Len(lines)
  <2>1. <<>> \in Seq(Line) /\ Len(<<>>) = 0
    OBVIOUS
  <2> QED
    BY <2>1 DEF Init
<1>5. /\ flushed \in BOOLEAN /\ last \in Contents /\ pre \in [Mutations -> Contents]
      /\ kills \in 0 .. MaxKills /\ losses \in 0 .. MaxLosses
  <2>1. 0 \in Contents /\ 0 \in 0 .. MaxKills /\ 0 \in 0 .. MaxLosses
    BY ConstantsAssumption DEF Contents
  <2> QED
    BY <2>1 DEF Init
<1>6. pc = <<"idle">>
  BY DEF Init
<1> QED
  BY <1>1, <1>2, <1>3, <1>4, <1>5, <1>6 DEF Typed

LEMMA NeverTorn == Typed => WholeVersions
BY Paths, NamesDistinct DEF Typed, WholeVersions, Contents

LEMMA AlwaysTyped == Spec => []Typed
BY InitTyped, TypedNext, PTL DEF Spec

\* Every variable keeps its type.
THEOREM TypesKept == Spec => []TypeOK
<1>1. ASSUME Typed
      PROVE  TypeOK
  <2>1. \A f \in Written : seen[f] # Torn
    <3>1. \A f \in Written : seen[f] \in maybe[f]
      BY <1>1, Paths DEF Typed
    <3>2. \A f \in Written : Torn \notin maybe[f]
      BY <1>1, NeverTorn DEF WholeVersions, Written
    <3> QED
      BY <3>1, <3>2
  <2>2. \A i \in DOMAIN lines : lines[i] \in Line
    BY <1>1 DEF Typed
  <2>3. \A f \in Files : seen[f] \in maybe[f] /\ maybe[f] \subseteq Values
    BY <1>1 DEF Typed
  <2> QED
    BY <1>1, <2>1, <2>2, <2>3 DEF Typed, TypeOK, Line
<1> QED
  BY <1>1, AlwaysTyped, PTL

\* atomic_write's docstring: whatever is read, after any number of kills and
\* power losses, is the previous contents or the complete new ones -- whether
\* directories can be synced or not.
THEOREM VersionsWhole == Spec => []WholeVersions
BY NeverTorn, AlwaysTyped, PTL

-----------------------------------------------------------------------------
(* Backed.                                                                 *)

\* A step that adds nothing to what may survive.
LEMMA BackedSurvived ==
  ASSUME Typed, Backed, Survived,
         last' = last, \A m \in Mutations : m <= last => pre'[m] = pre[m]
  PROVE  /\ BackupWhole'
         /\ \A m \in Mutations : m > last' => maybe'[m] = {None}
<1>1. maybe'[Target] \subseteq maybe[Target] /\ maybe[Target] \subseteq 0 .. last
  BY Paths DEF Survived, Typed
<1>2. \A m \in Mutations : maybe'[m] \subseteq maybe[m] /\ seen'[m] \in maybe'[m]
  BY Paths DEF Survived
<1>3. \A m \in Mutations : m > last => maybe'[m] = {None}
  BY <1>2 DEF Backed
<1>4. BackupWhole'
  BY <1>1, <1>2, Paths DEF Backed, BackupWhole
<1> QED
  BY <1>3, <1>4

\* From one step of an apply to the next, before it installs anything.
LEMMA BackedPreparing ==
  ASSUME Typed, Backed, Survived, pc \in Preparing, UNCHANGED <<seen, last, pre>>,
         pc' \in Preparing \ {<<"backup", "copy">>, <<"backup", "sync">>},
         maybe'[last] \subseteq {pre[last], None}
  PROVE  Backed'
<1>1. maybe'[Target] \subseteq maybe[Target]
  BY Paths DEF Survived
<1> QED
  BY <1>1, BackedSurvived DEF Backed

\* Elsewhere the mutation at work needs nothing of its backup.
LEMMA BackedElsewhere ==
  ASSUME Typed, Backed, Survived, UNCHANGED <<last, pre>>, pc' \notin Preparing
  PROVE  Backed'
BY BackedSurvived DEF Backed, Preparing

LEMMA BackedNarrowing ==
  ASSUME Typed, Backed, Narrowing, Survived, seen' = seen
  PROVE  Backed'
<1>1. CASE UNCHANGED vars
  BY <1>1 DEF vars, Backed, BackupWhole
<1>2. CASE Begin
  <2>1. /\ last' = last + 1 /\ last' \in Mutations /\ last \in Nat
        /\ pre' = [pre EXCEPT ![last'] = seen[Target]] /\ maybe' = maybe
        /\ pc' = <<"backup", "copy">>
    BY <1>2, ConstantsAssumption DEF Typed, Begin, Contents, Mutations
  <2>2. \A m \in Mutations : m # last' => pre'[m] = pre[m]
    BY <2>1 DEF Typed
  <2>3. pre'[last'] = seen[Target]
    BY <2>1 DEF Typed
  <2>4. last' \notin maybe[Target] /\ maybe[last'] = {None}
    BY <2>1 DEF Typed, Backed
  <2>5. BackupWhole'
    BY <2>1, <2>2, <2>4 DEF Backed, BackupWhole
  <2>6. \A m \in Mutations : m > last' => maybe'[m] = {None}
    BY <2>1, Paths DEF Backed
  <2> QED
    BY <2>1, <2>3, <2>4, <2>5, <2>6 DEF Backed
<1>3. CASE SyncBackup
  <2>1. /\ pc = <<"backup", "sync">> /\ pc' = <<Marker, "temp">>
        /\ maybe' = [maybe EXCEPT ![last] = @ \ {Torn}] /\ UNCHANGED <<last, pre>>
    BY <1>3 DEF SyncBackup, Goto
  <2>2. last \in Mutations
    BY <2>1 DEF Typed, Contents, Mutations
  <2>3. maybe'[last] \subseteq {pre[last], None}
    BY <2>1, <2>2, Paths DEF Typed, Backed
  <2> QED
    BY <2>1, <2>3, BackedPreparing, NamesDistinct DEF Preparing
<1>4. ASSUME NEW f \in Written, WriteTemp(f)
      PROVE  Backed'
  <2>1. /\ pc = <<f, "temp">> /\ pc' = <<f, "replace">> /\ UNCHANGED <<seen, maybe, last, pre>>
    BY <1>4 DEF WriteTemp, Goto
  <2>2. CASE f = Fingerprints
    BY <2>1, <2>2, BackedElsewhere, NamesDistinct DEF Preparing
  <2>3. CASE f # Fingerprints
    <3>1. pc \in Preparing \ {<<"backup", "sync">>}
      BY <1>4, <2>1, <2>3, NamesDistinct DEF Preparing, Written
    <3>2. maybe'[last] \subseteq {pre[last], None}
      BY <2>1, <3>1 DEF Backed
    <3>3. pc' \in Preparing \ {<<"backup", "copy">>, <<"backup", "sync">>}
      BY <1>4, <2>1, <2>3, NamesDistinct DEF Preparing, Written
    <3> QED
      BY <2>1, <3>1, <3>2, <3>3, BackedPreparing
  <2> QED
    BY <2>2, <2>3
<1>5. ASSUME NEW f \in Written, SyncDir(f)
      PROVE  Backed'
  <2>1. pc = <<f, "sync">> /\ pc' = After(f) /\ UNCHANGED <<last, pre>>
    BY <1>5 DEF SyncDir, Goto
  <2>2. CASE f # Marker
    <3>1. pc' \in {<<"journal">>, <<"idle">>}
      BY <1>5, <2>1, <2>2, AfterSteps DEF Written
    <3> QED
      BY <2>1, <3>1, BackedElsewhere DEF Preparing
  <2>3. CASE f = Marker
    <3>1. pc \in Preparing \ {<<"backup", "sync">>} /\ pc' = <<Target, "temp">>
      BY <2>1, <2>3, AfterSteps, NamesDistinct DEF Preparing, Written
    <3>2. last \in Mutations
      BY <2>1 DEF Typed, Contents, Mutations
    <3>3. maybe'[last] \subseteq {pre[last], None}
      BY <3>1, <3>2, Paths DEF Backed, Survived
    <3> QED
      BY <2>1, <3>1, <3>3, BackedPreparing, NamesDistinct DEF Preparing
  <2> QED
    BY <2>2, <2>3
<1>6. CASE Reconcile \/ Journal \/ JournalReconciled \/ Kill \/ WriteBack
  <2>1. /\ UNCHANGED <<last, pre>>
        /\ pc' \in {<<"idle">>, <<"clear">>, <<"blocked">>, <<"reconcile", "journal">>,
                   <<"reconcile", "clear">>}
    BY <1>6 DEF Reconcile, Journal, JournalReconciled, AppendLine, Goto, Kill, WriteBack
  <2>2. pc' \notin Preparing
    BY <2>1, NamesDistinct DEF Preparing
  <2> QED
    BY <2>1, <2>2, BackedElsewhere
<1> QED
  BY <1>1, <1>2, <1>3, <1>4, <1>5, <1>6 DEF Narrowing

\* What a Put changes.
LEMMA PutChange ==
  ASSUME Typed, NEW f \in Files, NEW v, NEW w, Put(f, v, w)
  PROVE  \A g \in Files : /\ seen'[g] = IF g = f THEN v ELSE seen[g]
                          /\ maybe'[g] = IF g = f THEN maybe[g] \cup w ELSE maybe[g]
BY DEF Typed, Put

LEMMA BackedNext ==
  ASSUME Typed, Backed, [Next]_vars
  PROVE  Backed'
<1>1. CASE Narrowing /\ Survived /\ seen' = seen
  BY <1>1, BackedNarrowing
<1>2. CASE PowerLoss /\ Survived
  <2>1. UNCHANGED <<last, pre>> /\ pc' = <<"idle">>
    BY <1>2 DEF PowerLoss
  <2> QED
    BY <1>2, <2>1, BackedElsewhere DEF Preparing
<1>3. CASE CopyBackup /\ Put(last, seen[Target], {Torn, seen[Target]})
  <2>1. /\ pc = <<"backup", "copy">> /\ pc' = <<"backup", "sync">> /\ UNCHANGED <<last, pre>>
    BY <1>3 DEF CopyBackup, Goto
  <2>2. last \in Mutations
    BY <2>1 DEF Typed, Contents, Mutations
  <2>3. \A g \in Files :
          /\ seen'[g] = IF g = last THEN seen[Target] ELSE seen[g]
          /\ maybe'[g] = IF g = last THEN maybe[g] \cup {Torn, seen[Target]} ELSE maybe[g]
    <3>1. last \in Files
      BY <2>2, Paths
    <3> QED
      BY <1>3, <3>1, PutChange
  <2>4. seen'[Target] = seen[Target] /\ maybe'[Target] = maybe[Target]
    BY <2>2, <2>3, Paths
  <2>5. seen[Target] = pre[last] /\ maybe[last] = {None} /\ last \notin maybe[Target]
    BY <2>1 DEF Backed, Preparing
  <2>6. BackupWhole'
    BY <2>1, <2>3, <2>4, <2>5, Paths DEF Backed, BackupWhole
  <2>7. ASSUME NEW m \in Mutations, m > last
        PROVE  maybe'[m] = {None}
    <3>1. m # last /\ m \in Files
      BY <2>2, <2>7, Paths
    <3> QED
      BY <2>3, <2>7, <3>1 DEF Backed
  <2>8. maybe'[last] \subseteq {pre[last], None, Torn}
    BY <2>2, <2>3, <2>5, Paths
  <2> QED
    BY <2>1, <2>4, <2>5, <2>6, <2>7, <2>8 DEF Backed
<1>4. ASSUME NEW f \in Written, Replace(f), Put(f, last, {last})
      PROVE  Backed'
  <2>1. /\ pc = <<f, "replace">> /\ pc' = <<f, "sync">> /\ UNCHANGED <<last, pre>>
    BY <1>4 DEF Replace, Goto
  <2>2. \A m \in Mutations : maybe'[m] = maybe[m]
    BY <1>4, Paths, PutChange
  <2>3. \A m \in Mutations : m > last' => maybe'[m] = {None}
    BY <2>1, <2>2 DEF Backed
  <2>4. CASE f = Target
    <3>1. maybe'[Target] = maybe[Target] \cup {last}
      BY <1>4, <2>4, Paths, PutChange
    <3>2. maybe[last] \subseteq {pre[last], None}
      BY <2>1, <2>4 DEF Backed, Preparing
    <3>3. BackupWhole'
      BY <2>1, <2>2, <3>1, <3>2 DEF Backed, BackupWhole
    <3> QED
      BY <2>1, <2>3, <2>4, <3>3, NamesDistinct DEF Backed, Preparing
  <2>5. CASE f # Target
    <3>1. seen'[Target] = seen[Target] /\ maybe'[Target] = maybe[Target]
      BY <1>4, <2>5, Paths, PutChange
    <3>2. BackupWhole'
      BY <2>1, <2>2, <3>1 DEF Backed, BackupWhole
    <3>3. CASE f = Fingerprints
      BY <2>1, <2>3, <3>2, <3>3, NamesDistinct DEF Backed, Preparing
    <3>4. CASE f = Marker
      <4>1. last \in Mutations
        BY <2>1 DEF Typed, Contents, Mutations
      <4> QED
        BY <2>1, <2>2, <2>3, <3>1, <3>2, <3>4, <4>1, NamesDistinct DEF Backed, Preparing
    <3> QED
      BY <1>4, <2>5, <3>3, <3>4 DEF Written
  <2> QED
    BY <2>4, <2>5
<1>5. CASE (Clear \/ ClearReconciled) /\ Put(Marker, None, {None})
  <2>1. UNCHANGED <<last, pre>> /\ pc' \in {<<Fingerprints, "temp">>, <<"idle">>}
    BY <1>5 DEF Clear, ClearReconciled, ClearMarker, Goto
  <2>2. /\ maybe'[Target] = maybe[Target] /\ \A m \in Mutations : maybe'[m] = maybe[m]
    BY <1>5, Paths, PutChange, NamesDistinct
  <2>3. BackupWhole'
    BY <2>1, <2>2 DEF Backed, BackupWhole
  <2> QED
    BY <2>1, <2>2, <2>3, NamesDistinct DEF Backed, Preparing
<1> QED
  BY <1>1, <1>2, <1>3, <1>4, <1>5, Change

LEMMA InitBacked == Init => Backed
<1> SUFFICES ASSUME Init PROVE Backed
  OBVIOUS
<1>1. last = 0 /\ pc = <<"idle">>
  BY DEF Init
<1>2. maybe[Target] = {0} /\ \A m \in Mutations : maybe[m] = {None}
  BY Paths, NamesDistinct DEF Init
<1>3. BackupWhole
  BY <1>2 DEF BackupWhole, Mutations
<1> QED
  BY <1>1, <1>2, <1>3 DEF Backed, Preparing

LEMMA AlwaysBacked == Spec => []Backed
BY AlwaysTyped, InitBacked, BackedNext, PTL DEF Spec

\* While its bytes may survive, the backup of a mutation is whole, or missing
\* (spec 0001, section 9, step 6): whether directories can be synced or not.
THEOREM BackupsWhole == Spec => []BackupWhole
<1>1. Backed => BackupWhole
  BY DEF Backed
<1> QED
  BY <1>1, AlwaysBacked, PTL

-----------------------------------------------------------------------------
(* Marked.                                                                 *)

LEMMA MarkedNext ==
  ASSUME DirSync, Typed, Marked, [Next]_vars
  PROVE  Marked'
<1>1. CASE UNCHANGED vars
  BY <1>1 DEF vars, Marked
<1>2. ASSUME pc' # <<Marker, "sync">>, pc' \notin Guarding
      PROVE  Marked'
  BY <1>2 DEF Marked
<1>3. CASE Begin \/ Reconcile \/ CopyBackup \/ SyncBackup \/ JournalReconciled
           \/ ClearReconciled \/ Clear \/ Kill \/ PowerLoss \/ WriteBack
  <2>1. pc' \in {<<"backup", "copy">>, <<"backup", "sync">>, <<Marker, "temp">>, <<"idle">>,
                <<"blocked">>, <<"reconcile", "clear">>, <<"reconcile", "journal">>,
                <<Fingerprints, "temp">>}
    BY <1>3 DEF Begin, Reconcile, CopyBackup, SyncBackup, JournalReconciled, AppendLine,
       ClearReconciled, Clear, ClearMarker, Goto, Kill, PowerLoss, WriteBack
  <2> QED
    BY <1>2, <2>1, NamesDistinct DEF Guarding
<1>4. CASE Journal
  BY <1>4, NamesDistinct DEF Journal, AppendLine, Goto, Marked, Guarding
<1>5. ASSUME NEW f \in Written, WriteTemp(f)
      PROVE  Marked'
  BY <1>5, NamesDistinct DEF WriteTemp, Goto, Marked, Guarding, Written
<1>6. ASSUME NEW f \in Written, Replace(f)
      PROVE  Marked'
  <2>1. pc = <<f, "replace">> /\ pc' = <<f, "sync">> /\ last' = last /\ Put(f, last, {last})
    <3>1. flushed
      BY <1>6 DEF Typed, Replace, Goto
    <3> QED
      BY <1>6, <3>1 DEF Replace, Goto, Put
  <2>2. CASE f = Target
    <3>1. maybe'[Marker] = maybe[Marker]
      BY <2>1, <2>2, Paths, PutChange, NamesDistinct
    <3> QED
      BY <2>1, <2>2, <3>1, NamesDistinct DEF Marked, Guarding
  <2>3. CASE f = Marker
    <3>1. seen'[Marker] = last
      BY <2>1, <2>3, Paths, PutChange
    <3> QED
      BY <2>1, <2>3, <3>1, NamesDistinct DEF Marked, Guarding
  <2>4. CASE f = Fingerprints
    BY <1>2, <2>1, <2>4, NamesDistinct DEF Guarding
  <2> QED
    BY <1>6, <2>2, <2>3, <2>4 DEF Written
<1>7. ASSUME NEW f \in Written, SyncDir(f)
      PROVE  Marked'
  <2>1. /\ pc = <<f, "sync">> /\ pc' = After(f) /\ last' = last /\ seen' = seen
        /\ maybe' = Synced(Directory(f))
    BY <1>7 DEF SyncDir, Goto
  <2>2. CASE f = Marker
    <3>1. pc' = <<Target, "temp">> /\ seen[Marker] = last
      BY <2>1, <2>2, AfterSteps, Paths DEF Marked
    <3>2. maybe'[Marker] = {seen[Marker]}
      BY <2>1, <2>2, Paths DEF Synced, Directory
    <3> QED
      BY <2>1, <3>1, <3>2, NamesDistinct DEF Marked, Guarding
  <2>3. CASE f = Target
    <3>1. pc' = <<"journal">> /\ maybe[Marker] = {last} /\ seen[Marker] \in maybe[Marker]
      BY <2>1, <2>3, AfterSteps, Paths DEF Typed, Marked, Guarding
    <3>2. maybe'[Marker] = maybe[Marker]
      BY <2>1, <2>3, <3>1, Paths DEF Synced, Directory
    <3> QED
      BY <2>1, <3>1, <3>2, NamesDistinct DEF Marked, Guarding
  <2>4. CASE f = Fingerprints
    <3>1. pc' = <<"idle">>
      BY <2>1, <2>4, AfterSteps, Paths
    <3> QED
      BY <1>2, <3>1 DEF Guarding
  <2> QED
    BY <1>7, <2>2, <2>3, <2>4 DEF Written
<1> QED
  BY <1>1, <1>3, <1>4, <1>5, <1>6, <1>7 DEF Next, Apply

LEMMA InitMarked == Init => Marked
BY DEF Init, Marked, Guarding

LEMMA AlwaysMarked == DirSync => (Spec => []Marked)
<1> SUFFICES ASSUME DirSync PROVE Spec => []Marked
  OBVIOUS
<1>1. Typed /\ Marked /\ [Next]_vars => Marked'
  BY MarkedNext
<1> QED
  BY <1>1, AlwaysTyped, InitMarked, PTL DEF Spec

-----------------------------------------------------------------------------
(* Decided.                                                                *)

\* A step that only narrows what may survive, and leaves no rename to be synced.
LEMMA DecidedSurvived ==
  ASSUME Typed, Decided, Survived, kills' = kills, kills = 0 => pc' # <<"blocked">>,
         \A m \in Mutations : m <= last => pre'[m] = pre[m],
         kills = 0 /\ pc' # <<Target, "sync">> => maybe'[Target] = {seen'[Target]}
  PROVE  Decided'
<1> SUFFICES ASSUME kills = 0
             PROVE  Decided'
  BY DEF Decided
<1>1. maybe'[Target] \subseteq maybe[Target] /\ maybe'[Marker] \subseteq maybe[Marker]
  BY Paths DEF Survived
<1>2. ASSUME NEW m \in Mutations, m \in maybe'[Marker]
      PROVE  maybe'[Target] \subseteq {m, pre'[m]}
  <2>1. maybe[Target] \subseteq {m, pre[m]}
    BY <1>1, <1>2 DEF Decided
  <2>2. m \in (1 .. last) \cup {None}
    BY <1>1, <1>2 DEF Typed
  <2>3. m <= last
    <3>1. m \in 1 .. last /\ last \in Nat
      BY <2>2, Paths DEF Typed
    <3> QED
      BY <3>1
  <2> QED
    BY <1>1, <2>1, <2>3
<1> QED
  BY <1>2 DEF Decided

\* reconcile finds the target at the preimage or the post-image of the marker.
LEMMA NeverBlocked ==
  ASSUME Typed, Decided, kills = 0, Reconcile
  PROVE  pc' # <<"blocked">>
<1>1. PICK m : m = seen[Marker]
  OBVIOUS
<1>2. m \in maybe[Marker] /\ m # None
  BY <1>1, Paths DEF Typed, Reconcile
<1>3. m \in Mutations
  <2>1. m \in 1 .. last
    BY <1>2 DEF Typed
  <2> QED
    BY <2>1, ConstantsAssumption DEF Typed, Contents, Mutations
<1>4. seen[Target] \in maybe[Target] /\ maybe[Target] \subseteq {m, pre[m]}
  BY <1>2, <1>3, Paths DEF Typed, Decided
<1> QED
  BY <1>1, <1>4 DEF Reconcile

LEMMA DecidedNext ==
  ASSUME DirSync, Typed, Backed, Marked, Decided, [Next]_vars
  PROVE  Decided'
<1>1. CASE Kill
  BY <1>1 DEF Kill, Typed, Decided
<1>2. CASE PowerLoss /\ Survived
  <2>1. maybe'[Target] = {seen'[Target]} /\ pc' = <<"idle">> /\ UNCHANGED <<pre, kills>>
    BY <1>2, Paths, Lost DEF PowerLoss
  <2> QED
    BY <1>2, <2>1, DecidedSurvived
<1>3. CASE UNCHANGED vars
  BY <1>3 DEF vars, Decided
<1>4. CASE Narrowing /\ Survived /\ seen' = seen /\ ~ Kill /\ ~ UNCHANGED vars
  <2>1. kills' = kills
    BY <1>4 DEF Narrowing, Begin, Reconcile, SyncBackup, Journal, JournalReconciled, AppendLine,
       WriteBack, WriteTemp, SyncDir
  <2>2. kills = 0 => pc' # <<"blocked">>
    <3>1. CASE Reconcile
      BY <3>1, NeverBlocked
    <3>2. CASE \E f \in Written : WriteTemp(f) \/ SyncDir(f)
      BY <3>2, AfterSteps, NamesDistinct DEF WriteTemp, SyncDir, Goto, Written
    <3>3. CASE Begin \/ SyncBackup \/ Journal \/ JournalReconciled \/ WriteBack
      BY <3>3 DEF Begin, SyncBackup, Journal, JournalReconciled, AppendLine, Goto, WriteBack
    <3> QED
      BY <1>4, <3>1, <3>2, <3>3 DEF Narrowing
  <2>3. \A m \in Mutations : m <= last => pre'[m] = pre[m]
    <3>1. CASE Begin
      BY <3>1, Paths DEF Typed, Begin
    <3>2. CASE ~ Begin
      BY <1>4, <3>2 DEF Narrowing, Reconcile, SyncBackup, Journal, JournalReconciled, AppendLine,
         WriteBack, WriteTemp, SyncDir
    <3> QED
      BY <3>1, <3>2
  <2>4. kills = 0 /\ pc' # <<Target, "sync">> => maybe'[Target] = {seen'[Target]}
    <3>1. maybe'[Target] \subseteq maybe[Target] /\ seen'[Target] \in maybe'[Target]
      BY <1>4, Paths DEF Survived
    <3>2. CASE pc # <<Target, "sync">>
      BY <1>4, <3>1, <3>2 DEF Decided
    <3>3. CASE pc = <<Target, "sync">>
      <4>1. SyncDir(Target)
        BY <1>4, <3>3, NamesDistinct DEF Narrowing, Begin, Reconcile, SyncBackup, Journal,
           JournalReconciled, AppendLine, Goto, WriteBack, WriteTemp, SyncDir, Written
      <4>2. maybe'[Target] = {seen[Target]}
        BY <4>1, Paths, NamesDistinct DEF SyncDir, Synced, Directory
      <4> QED
        BY <1>4, <4>2
    <3> QED
      BY <3>2, <3>3
  <2> QED
    BY <1>4, <2>1, <2>2, <2>3, <2>4, DecidedSurvived
<1>5. CASE CopyBackup /\ Put(last, seen[Target], {Torn, seen[Target]})
  <2>1. /\ pc = <<"backup", "copy">> /\ pc' = <<"backup", "sync">>
        /\ UNCHANGED <<last, pre, kills>>
    BY <1>5 DEF CopyBackup, Goto
  <2>2. last \in Mutations
    BY <2>1 DEF Typed, Contents, Mutations
  <2>3. last \in Files /\ last # Target /\ last # Marker
    BY <2>2, Paths
  <2>4. \A g \in Files : g # last => seen'[g] = seen[g] /\ maybe'[g] = maybe[g]
    BY <1>5 DEF Typed, Put
  <2>5. seen'[Target] = seen[Target] /\ maybe'[Target] = maybe[Target]
    BY <2>3, <2>4, Paths
  <2>6. maybe'[Marker] = maybe[Marker]
    BY <2>3, <2>4, Paths
  <2>7. pc # <<Target, "sync">> /\ pc' # <<"blocked">>
    BY <2>1, NamesDistinct
  <2> QED
    BY <2>1, <2>5, <2>6, <2>7 DEF Decided
<1>6. ASSUME NEW f \in Written, Replace(f), Put(f, last, {last})
      PROVE  Decided'
  <2> SUFFICES ASSUME kills = 0
               PROVE  Decided'
    BY <1>6 DEF Decided, Replace
  <2>1. /\ pc = <<f, "replace">> /\ pc' = <<f, "sync">> /\ UNCHANGED <<last, pre, kills>>
    BY <1>6 DEF Replace, Goto
  <2>2. /\ pc # <<Target, "sync">> /\ pc' # <<"blocked">>
        /\ maybe[Target] = {seen[Target]}
    BY <2>1 DEF Decided
  <2>3. CASE f = Target
    <3>1. maybe[Marker] = {last} /\ seen[Target] = pre[last]
      BY <2>1, <2>3 DEF Marked, Guarding, Backed, Preparing
    <3>2. maybe'[Target] = maybe[Target] \cup {last} /\ maybe'[Marker] = maybe[Marker]
      BY <1>6, <2>3, Paths, PutChange, NamesDistinct
    <3> QED
      BY <2>1, <2>2, <2>3, <3>1, <3>2 DEF Decided
  <2>4. CASE f = Marker
    <3>1. seen[Target] = pre[last]
      BY <2>1, <2>4 DEF Backed, Preparing
    <3>2. /\ maybe'[Marker] = maybe[Marker] \cup {last}
          /\ maybe'[Target] = maybe[Target] /\ seen'[Target] = seen[Target]
      BY <1>6, <2>4, Paths, PutChange, NamesDistinct
    <3> QED
      BY <2>1, <2>2, <3>1, <3>2 DEF Decided
  <2>5. CASE f = Fingerprints
    <3>1. /\ maybe'[Marker] = maybe[Marker]
          /\ maybe'[Target] = maybe[Target] /\ seen'[Target] = seen[Target]
      BY <1>6, <2>5, Paths, PutChange, NamesDistinct
    <3> QED
      BY <2>1, <2>2, <3>1 DEF Decided
  <2> QED
    BY <1>6, <2>3, <2>4, <2>5 DEF Written
<1>7. CASE (Clear \/ ClearReconciled) /\ Put(Marker, None, {None})
  <2>1. /\ pc \in {<<"clear">>, <<"reconcile", "clear">>} /\ UNCHANGED <<last, pre, kills>>
        /\ pc' \in {<<Fingerprints, "temp">>, <<"idle">>}
    BY <1>7 DEF Clear, ClearReconciled, ClearMarker, Goto
  <2>2. /\ maybe'[Target] = maybe[Target] /\ seen'[Target] = seen[Target]
        /\ maybe'[Marker] = maybe[Marker] \cup {None}
    BY <1>7, Paths, PutChange, NamesDistinct
  <2>3. pc # <<Target, "sync">> /\ pc' # <<"blocked">>
    BY <2>1, NamesDistinct
  <2>4. None \notin Mutations
    BY Paths, NamesDistinct
  <2> QED
    BY <2>1, <2>2, <2>3, <2>4 DEF Decided
<1> QED
  BY <1>1, <1>2, <1>3, <1>4, <1>5, <1>6, <1>7, Change

LEMMA InitDecided == Init => Decided
<1> SUFFICES ASSUME Init PROVE Decided
  OBVIOUS
<1>1. maybe[Target] = {seen[Target]} /\ maybe[Marker] = {None} /\ pc = <<"idle">>
  BY Paths, NamesDistinct DEF Init
<1> QED
  BY <1>1, Paths DEF Decided

\* Where directories can be synced, a mutation whose bytes may survive has a
\* marker that does, and power losses alone never bring reconcile to a target
\* that is neither the marker's preimage nor its post-image.
THEOREM ReconcileCanDecide ==
  ASSUME DirSync
  PROVE  Spec => []ReconcileDecides
<1>1. Typed /\ Backed /\ Marked /\ Decided /\ [Next]_vars => Decided'
  BY DecidedNext
<1>2. Typed /\ Marked /\ Decided => ReconcileDecides
  <2> SUFFICES ASSUME Typed, Marked, Decided
               PROVE  ReconcileDecides
    OBVIOUS
  <2> DEFINE installing == pc \in {<<Target, "replace">>, <<Target, "sync">>, <<"journal">>}
  <2>1. ASSUME installing
        PROVE  maybe[Marker] = {last} /\ last \in Mutations
    <3>1. pc \in Guarding /\ pc # <<"idle">>
      BY <2>1 DEF Guarding
    <3> QED
      BY <3>1 DEF Marked, Typed, Contents, Mutations
  <2>2. kills = 0 => (installing => maybe[Target] \subseteq {last, pre[last]})
    BY <2>1 DEF Decided
  <2> QED
    BY <2>1, <2>2 DEF ReconcileDecides, Decided
<1> QED
  BY <1>1, <1>2, AlwaysTyped, AlwaysBacked, AlwaysMarked, InitDecided, PTL DEF Spec
=============================================================================
