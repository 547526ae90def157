------------------------------ MODULE Destination ------------------------------
(***************************************************************************)
(* Where a change may land: allowlist.resolve, what owners.discover lists, *)
(* and the path an apply or a rollback writes to (mutate.py, paths.py),    *)
(* while others move directories and put symbolic links in their place.    *)
(*                                                                         *)
(* A path is the sequence of its names, already absolute and normalized    *)
(* (os.path.abspath has no effect on it).  Contents are left out: where a  *)
(* digest is compared, the command may also refuse.                        *)
(***************************************************************************)
EXTENDS Naturals, Sequences, SequencesExt

CONSTANTS
  Nodes,       \* paths that may exist
  Present,     \* those that exist at first, as files or directories
  ClaudeHome,  \* paths.claude_home()
  Projects,    \* working directories commands run in
  MdNames,     \* names that end in .md
  RuleParts,   \* names that match RULE_NAME once .md is taken out
  RuleNames,   \* names that match RULE_NAME
  SkillNames,  \* names that match SKILL_NAME
  None,        \* nothing there
  Links,       \* bound: the links others may make, <<in place of, leading to>>
  Deletable,   \* bound: what others may delete
  MaxChanges,  \* bound: changes by others
  MaxLinks,    \* bound: links followed in one path
  RaceLinks    \* may others change the tree between a check and its write?

ASSUME ConstantsAssumption ==
  /\ Nodes \subseteq Seq(STRING) \ {<<>>}
  /\ \A n \in Nodes : Len(n) > 1 => Front(n) \in Nodes
  /\ Present \subseteq Nodes
  /\ \A n \in Present : Len(n) > 1 => Front(n) \in Present /\ Last(Front(n)) \notin MdNames
  /\ ClaudeHome \in Nodes /\ Projects \subseteq Nodes
  /\ Links \subseteq Nodes \X Nodes /\ Deletable \subseteq Nodes
  /\ MaxChanges \in Nat /\ MaxLinks \in Nat /\ RaceLinks \in BOOLEAN

VARIABLES
  fs,       \* what each node is
  shown,    \* the staged proposal: the destination the user is shown
  mutated,  \* the path the journal has for the change that was applied
  op, held, \* the command at work, and the path it resolved
  changes

vars == <<fs, shown, mutated, op, held, changes>>

-----------------------------------------------------------------------------
(* The file system.                                                        *)

Nothing  == [type |-> "none", to |-> <<>>]
File     == [type |-> "file", to |-> <<>>]
Dir      == [type |-> "dir", to |-> <<>>]
Link(m)  == [type |-> "link", to |-> m]
Entries  == {Nothing, File, Dir} \cup {Link(m) : m \in Nodes}

TypeAt(n) == IF n \in Nodes THEN fs[n].type ELSE "none"

\* The names of a path that are links, and the path with the first one followed.
LinksOf(path) == {k \in 1 .. Len(path) : TypeAt(SubSeq(path, 1, k)) = "link"}

Follow(path) ==
  LET links == LinksOf(path) IN
    IF links = {} THEN path
    ELSE LET k == Min(links) IN fs[SubSeq(path, 1, k)].to \o SubSeq(path, k + 1, Len(path))

Followed(path) ==
  LET after[n \in 0 .. MaxLinks] == IF n = 0 THEN path ELSE Follow(after[n - 1])
  IN  after[MaxLinks]

\* os.path.realpath.  A path whose links lead round in a circle, or over MaxLinks of
\* them, stays as it is (the code's keeps a link of the circle: no file can be at either).
Real(path) ==
  IF LinksOf(path) = {} THEN path
  ELSE LET end == Followed(path) IN IF LinksOf(end) = {} THEN end ELSE path

\* The entry a path names, links in its parents followed but not its own.
Entry(path) == Append(Real(Front(path)), Last(path))

IsLink(path) == TypeAt(Entry(path)) = "link"
IsFile(path) == TypeAt(Real(path)) = "file"
IsDir(path)  == TypeAt(Real(path)) = "dir"
Exists(path) == TypeAt(Real(path)) # "none"

Within(path, root)   == IsPrefix(root, path)
Relative(path, root) == SubSeq(path, Len(root) + 1, Len(path))

LinkBelow(path, root) ==
  \E k \in Len(root) + 1 .. Len(path) : IsLink(SubSeq(path, 1, k))

-----------------------------------------------------------------------------
(* allowlist.py.                                                           *)

Scopes == {"user", "project"}
Kinds  == {"CLAUDE.md", "rule", "skill"}

Paths      == Seq(STRING)
Resolution == [path : Paths, scope : Scopes, kind : Kinds]

\* The names the code gives are names (the provers take no literal for a STRING).
ASSUME LiteralsAreNames ==
  {"CLAUDE.md", ".claude", "rules", "skills", "SKILL.md"} \subseteq STRING

ASSUME NoneIsNothingElse == None \notin Paths \cup Resolution \cup Scopes \cup Kinds

Root(scope, cwd) == IF scope = "user" THEN Real(ClaudeHome) ELSE Real(cwd)

\* Mutant: containment is decided on the caller's spelling.
ScopeOfSpelling(path, cwd, spelling) ==
  IF Within(spelling, Root("user", cwd)) THEN "user"
  ELSE IF Within(spelling, Root("project", cwd)) THEN "project" ELSE None

ScopeOf(path, cwd, spelling) ==
  IF Within(path, Root("user", cwd)) THEN "user"
  ELSE IF Within(path, Root("project", cwd)) THEN "project" ELSE None

\* Mutant: a skill directory may hold any file.
ShapeLoose(parts) ==
  CASE parts = <<"CLAUDE.md">> -> "CLAUDE.md"
    [] Len(parts) >= 2 /\ parts[1] = "rules" /\ Last(parts) \in MdNames ->
         IF \A i \in 2 .. Len(parts) : parts[i] \in RuleParts THEN "rule" ELSE None
    [] Len(parts) = 3 /\ parts[1] = "skills" /\ parts[2] \in SkillNames -> "skill"
    [] OTHER -> None

Shape(parts) ==
  CASE parts = <<"CLAUDE.md">> -> "CLAUDE.md"
    [] Len(parts) >= 2 /\ parts[1] = "rules" /\ Last(parts) \in MdNames ->
         IF \A i \in 2 .. Len(parts) : parts[i] \in RuleParts THEN "rule" ELSE None
    [] Len(parts) = 3 /\ parts[1] = "skills" /\ parts[3] = "SKILL.md"
         /\ parts[2] \in SkillNames -> "skill"
    [] OTHER -> None

\* User scope hangs off ~/.claude, project scope off ./.claude but for ./CLAUDE.md.
KindOf(scope, parts) ==
  IF scope = "user" THEN Shape(parts)
  ELSE IF parts = <<"CLAUDE.md">> THEN "CLAUDE.md"
  ELSE IF Len(parts) >= 2 /\ parts[1] = ".claude" THEN Shape(Tail(parts)) ELSE None

\* Mutant: the caller's spelling is returned, not the real path.
ResolveSpelling(target, cwd) ==
  LET real  == Real(target)
      scope == ScopeOf(real, cwd, target)
      root  == Root(scope, cwd)
      kind  == KindOf(scope, Relative(real, root))
  IN IF /\ scope # None
        /\ ~IsLink(target) /\ ~LinkBelow(real, root)
        /\ kind # None
        /\ Exists(real) => IsFile(real)
     THEN [path |-> target, scope |-> scope, kind |-> kind]
     ELSE None

\* allowlist.resolve; None for every PathRejected.
Resolve(target, cwd) ==
  LET real  == Real(target)
      scope == ScopeOf(real, cwd, target)
      root  == Root(scope, cwd)
      kind  == KindOf(scope, Relative(real, root))
  IN IF /\ scope # None
        /\ ~IsLink(target) /\ ~LinkBelow(real, root)
        /\ kind # None
        /\ Exists(real) => IsFile(real)
     THEN [path |-> real, scope |-> scope, kind |-> kind]
     ELSE None

Base(scope, cwd) ==
  IF scope = "user" THEN Root(scope, cwd) ELSE Append(Root(scope, cwd), ".claude")

\* candidate_paths; a name with no .md has it appended.
CandidatePaths(scope, kind, name, cwd) ==
  CASE kind = "CLAUDE.md" -> {Append(Root(scope, cwd), "CLAUDE.md"),
                              Append(Base(scope, cwd), "CLAUDE.md")}
    [] kind = "rule" /\ name \in RuleNames \cap MdNames -> {Base(scope, cwd) \o <<"rules", name>>}
    [] kind = "skill" /\ name \in SkillNames ->
         {Base(scope, cwd) \o <<"skills", name, "SKILL.md">>}
    [] OTHER -> {}

-----------------------------------------------------------------------------
(* owners.py.                                                              *)

\* os.walk, which enters the base through a link but no directory below it.
Walk(base) ==
  {base \o Relative(n, Real(base)) :
     n \in {m \in Nodes : m # Real(base) /\ Within(m, Real(base)) /\ TypeAt(m) \in {"file", "link"}}}

\* Mutant: what the walk finds is listed as it is.
ScanUnchecked(scope, kind, subdir, cwd) ==
  IF ~IsDir(Append(Base(scope, cwd), subdir)) THEN {}
  ELSE {t \in Walk(Append(Base(scope, cwd), subdir)) :
          IF kind = "skill" THEN Last(t) = "SKILL.md" ELSE Last(t) \in MdNames}

\* _scan_directory.
Scan(scope, kind, subdir, cwd) ==
  IF ~IsDir(Append(Base(scope, cwd), subdir)) THEN {}
  ELSE {r.path : r \in {Resolve(t, cwd) :
          t \in {u \in Walk(Append(Base(scope, cwd), subdir)) :
                   IF kind = "skill" THEN Last(u) = "SKILL.md" ELSE Last(u) \in MdNames}} \ {None}}

\* The rules and skills discover lists.
ListedArtifacts(cwd) ==
  UNION {Scan(scope, "rule", "rules", cwd) \cup Scan(scope, "skill", "skills", cwd) : scope \in Scopes}

\* The CLAUDE.md files it lists, there or available to create.
ListedClaudeMd(cwd) ==
  UNION {CandidatePaths(scope, "CLAUDE.md", None, cwd) : scope \in Scopes}

\* A link is no target, so only a name with an allowed shape is accepted.
Targets == {n \in Nodes : Last(n) \in MdNames}

-----------------------------------------------------------------------------
(* Stage, apply, roll back.                                                *)

Init ==
  /\ fs = [n \in Nodes |-> IF n \notin Present THEN Nothing
                           ELSE IF Last(n) \in MdNames THEN File ELSE Dir]
  /\ shown = None /\ mutated = None
  /\ op = "none" /\ held = None
  /\ changes = 0

Idle == op = "none"

\* proposals.stage keeps the resolved path, and that is what is displayed.
Stage(target, cwd) ==
  /\ Idle /\ shown = None
  /\ shown' = Resolve(target, cwd) /\ shown' # None
  /\ UNCHANGED <<fs, mutated, op, held, changes>>

\* apply_proposal up to the digest: path_rejected, target_moved or stale_target
\* leave everything as it is.
BeginApply(cwd) ==
  /\ Idle /\ shown # None
  /\ Resolve(shown.path, cwd) # None
  /\ Resolve(shown.path, cwd).path = shown.path
  /\ op' = "apply" /\ held' = shown.path
  /\ UNCHANGED <<fs, shown, mutated, changes>>

\* rollback_mutation resolves the journaled path and does not compare it; the
\* bytes that were installed must be there.
BeginRollback(cwd) ==
  /\ Idle /\ mutated # None
  /\ Resolve(mutated, cwd) # None
  /\ IsFile(Resolve(mutated, cwd).path)
  /\ op' = "rollback" /\ held' = Resolve(mutated, cwd).path
  /\ UNCHANGED <<fs, shown, mutated, changes>>

\* ensure_dir makes the missing parents; os.replace replaces a file or a link.
CanWrite(path) ==
  /\ Entry(path) \in Nodes /\ TypeAt(Entry(path)) # "dir"
  /\ \A n \in Nodes : n # Entry(path) /\ Within(Entry(path), n) => TypeAt(n) \in {"dir", "none"}

\* Mutant: the parents are not made.
PutBare(path, entry) ==
  fs' = [fs EXCEPT ![Entry(path)] = entry]

Put(path, entry) ==
  fs' = [n \in Nodes |-> IF n = Entry(path) THEN entry
                         ELSE IF Within(Entry(path), n) THEN Dir ELSE fs[n]]

Land(entry) ==
  /\ Put(held, entry)
  /\ op' = "none" /\ held' = None

Install ==
  /\ op = "apply" /\ CanWrite(held)
  /\ Land(File)
  /\ mutated' = held /\ shown' = None
  /\ UNCHANGED changes

\* The backup is written back, or the file the mutation created is removed.
Restore ==
  /\ op = "rollback" /\ CanWrite(held)
  /\ Land(File) \/ (TypeAt(Entry(held)) # "none" /\ Land(Nothing))
  /\ mutated' = None
  /\ UNCHANGED <<shown, changes>>

\* install_failed or restore_failed, a digest that differs, a kill.
Fail ==
  /\ ~Idle
  /\ op' = "none" /\ held' = None
  /\ UNCHANGED <<fs, shown, mutated, changes>>

-----------------------------------------------------------------------------
(* Everybody else.                                                         *)

Change ==
  /\ RaceLinks \/ Idle
  /\ changes < MaxChanges /\ changes' = changes + 1
  /\ UNCHANGED <<shown, mutated, op, held>>

Replaced(n, entry) ==
  fs' = [m \in Nodes |-> IF m = n THEN entry ELSE IF Within(m, n) THEN Nothing ELSE fs[m]]

\* A symbolic link takes the place of a file or a directory, or a free one.
Relink(n, m) ==
  /\ Change
  /\ TypeAt(m) \in {"file", "dir"} /\ TypeAt(n) \in {TypeAt(m), "none"}
  /\ Len(n) > 1 => TypeAt(Front(n)) = "dir"
  /\ Replaced(n, Link(m))

Delete(n) ==
  /\ Change
  /\ TypeAt(n) # "none"
  /\ Replaced(n, Nothing)

Next ==
  \/ \E t \in Targets, cwd \in Projects : Stage(t, cwd)
  \/ \E cwd \in Projects : BeginApply(cwd) \/ BeginRollback(cwd)
  \/ Install \/ Restore \/ Fail
  \/ \E l \in Links : Relink(l[1], l[2])
  \/ \E n \in Deletable : Delete(n)

Spec == Init /\ [][Next]_vars

-----------------------------------------------------------------------------

\* Every variable keeps its type, and nothing stands on what is not a directory.
TypeOK ==
  /\ fs \in [Nodes -> Entries]
  /\ \A n \in Nodes : fs[n].type # "none" /\ Len(n) > 1 => fs[Front(n)].type = "dir"
  /\ shown \in Resolution \cup {None}
  /\ mutated \in Paths \cup {None}
  /\ op \in {"none", "apply", "rollback"} /\ (op = "none") = (held = None)
  /\ held \in Paths \cup {None}
  /\ changes \in 0 .. MaxChanges

\* The allowlist as describe() lists it, with rules at any depth: what may lie
\* below ~/.claude and below ./.claude.
Listed(s) ==
  \/ s = <<"CLAUDE.md">>
  \/ \E name \in SkillNames : s = <<"skills", name, "SKILL.md">>
  \/ /\ Len(s) > 1 /\ s[1] = "rules" /\ s[Len(s)] \in MdNames
     /\ Tail(s) \in Seq(RuleParts)

Allowed(path, home, project) ==
  \/ path = Append(project, "CLAUDE.md")
  \/ \E base \in {home, Append(project, ".claude")} :
       IsPrefix(base, path) /\ Listed(SubSeq(path, Len(base) + 1, Len(path)))

\* With no change between a check and its write, a command changes no entry but
\* the one it checked -- for an apply the one the user was shown -- and missing
\* directories over it, whatever was linked since it was staged (spec 0001, 8.1
\* and 9).
LandsWhereChecked ==
  [][op # "none" /\ op' = "none" =>
       \A n \in Nodes : fs'[n] # fs[n] =>
         \/ n = IF op = "apply" THEN shown.path ELSE held
         \/ fs[n] = Nothing /\ fs'[n] = Dir /\ Within(held, n)]_vars

\* And what is about to be written lies in the allowlist of a root as it is now.
HeldIsAllowed ==
  held # None => \E cwd \in Projects : Allowed(held, Real(ClaudeHome), Real(cwd))

\* Resolution reads the tree alone: these two look at every tree, once.
BetweenCommands == Idle /\ shown = None

\* resolve accepts the path it returned, unchanged: apply resolves again what
\* stage resolved, and must not take an unmoved target for a moved one.
ResolveIdempotent ==
  BetweenCommands => \A cwd \in Projects, t \in Targets :
    LET r == Resolve(t, cwd) IN r # None => Resolve(r.path, cwd) = r

\* What find-owners lists, the mutator accepts at that very path (owners.py:139):
\* rules and skills always; a CLAUDE.md unless it is a link or a directory, its
\* directory ./.claude is a link, the project lies inside ~/.claude, or it is
\* ~/.claude itself.
ListedAccepted ==
  BetweenCommands => \A cwd \in Projects :
    /\ \A t \in ListedArtifacts(cwd) : LET r == Resolve(t, cwd) IN r # None /\ r.path = t
    /\ \A t \in ListedClaudeMd(cwd) :
         \/ IsLink(t) \/ IsDir(t) \/ Within(Real(cwd), Real(ClaudeHome)) \/ t = Real(ClaudeHome)
         \/ LinkBelow(t, Real(cwd))
         \/ Resolve(t, cwd) # None /\ Resolve(t, cwd).kind = "CLAUDE.md"

\* What owners.py says of itself, that it surfaces no path the mutator would refuse
\* (owners.py:7, 139).  A CLAUDE.md is listed without the round trip that a rule or
\* a skill makes through resolve, and one that is a link is refused.
EveryListedAccepted ==
  BetweenCommands => \A cwd \in Projects :
    \A t \in ListedArtifacts(cwd) \cup ListedClaudeMd(cwd) : Resolve(t, cwd) # None
=============================================================================
