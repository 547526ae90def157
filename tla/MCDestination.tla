---------------------------- MODULE MCDestination ----------------------------
(* Destination over a home, a checkout and a directory outside both:       *)
(* destination*.cfg instantiate it.                                        *)
EXTENDS Destination

Home == <<"h", ".claude">>
Work == <<"w">>

SmallNodes ==
  {<<"h">>, Home, <<"w">>, <<"o">>}
    \cup {Home \o s : s \in {<<"CLAUDE.md">>, <<"rules">>, <<"rules", "a.md">>, <<"rules", "t">>,
                             <<"rules", "t", "a.md">>, <<"skills">>, <<"skills", "s">>,
                             <<"skills", "s", "SKILL.md">>, <<"skills", "s", "a.md">>}}
    \cup {Work \o s : s \in {<<"CLAUDE.md">>, <<".claude">>, <<".claude", "rules">>,
                             <<".claude", "rules", "a.md">>}}
    \cup {<<"o", "a.md">>}

\* The home directory holds no CLAUDE.md of its own yet, and no rules/t.
AtFirst == SmallNodes \ {Home \o <<"CLAUDE.md">>, Home \o <<"rules", "t", "a.md">>}

\* A file or a directory turns into a link, out of both roots or across them.
\* Two of them lead round in a circle.
NewLinks ==
  {<<Home, Work \o <<".claude">>>>,
   <<Home \o <<"rules">>, Work \o <<".claude", "rules">>>>,
   <<Work \o <<".claude">>, Home>>,
   <<Home \o <<"rules", "t">>, <<"o">>>>,
   <<Home \o <<"CLAUDE.md">>, Work \o <<"CLAUDE.md">>>>,
   <<Home \o <<"rules", "a.md">>, <<"o", "a.md">>>>,
   <<Work, <<"o">>>>,
   <<Work \o <<"CLAUDE.md">>, <<"o", "a.md">>>>}

GoneDirs == {Home \o <<"rules">>, Work \o <<".claude">>, Work \o <<"CLAUDE.md">>}

\* A checkout, and a session started in the home directory.
WorkingDirs == {Work, <<"h">>}

Md         == {"CLAUDE.md", "a.md", "SKILL.md"}
PlainNames == {"a.md", "t", "s", "CLAUDE.md", "SKILL.md"}
DirNames   == {"s", "t"}
=============================================================================
