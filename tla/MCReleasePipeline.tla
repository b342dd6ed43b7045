------------------------ MODULE MCReleasePipeline ------------------------
EXTENDS ReleasePipeline, TLC

\* areas 1.0 is on main with its GitHub URL, stats 0.9 with its mirror URL;
\* stats 1.0-rc needs areas.  Its tag may move from c1, whose wheel does not build
\* reproducibly, to c2; what r0 built from c1 is in review.
CONSTANTS a1, s0, s1, areas, stats, ca, c0, c1, c2, wa, wb, r0

MCOrder == <<a1, s0, s1>>
MCModuleOf == (a1 :> areas) @@ (s0 :> stats) @@ (s1 :> stats)
MCTagged == (a1 :> ca) @@ (s0 :> c0) @@ (s1 :> c1)
MCManifest == (ca :> a1) @@ (c0 :> s0) @@ (c1 :> s1) @@ (c2 :> s1)
MCNeeds == (ca :> {}) @@ (c0 :> {}) @@ (c1 :> {areas}) @@ (c2 :> {areas})
MCSatisfies == [c \in Commits |-> {a1}]
MCWheels == (ca :> {wa}) @@ (c0 :> {wa}) @@ (c1 :> {wa, wb}) @@ (c2 :> {wa})
MCFronts == [c \in Commits |-> {None}]

B(c, wheel) == [commit |-> c, wheel |-> wheel, front |-> None]
R(c, wheel, channel, url) ==
    [commit |-> c, digest |-> B(c, wheel), channel |-> channel, url |-> url]

MCHostAccepts == {B(ca, wa), B(ca, wb), B(c0, wa), B(c1, wa), B(c1, wb), B(c2, wa)}
MCImported == (a1 :> R(ca, wa, "stable", "github")) @@ (s1 :> None)
              @@ (s0 :> R(c0, wa, "stable", "mirror"))

MCRetags == {[obj |-> s1, commit |-> c2], [obj |-> s1, commit |-> ca]}
MCAssets == {[obj |-> a1, bytes |-> B(ca, wb)], [obj |-> s1, bytes |-> B(c2, wa)]}
MCFiles == {[obj |-> a1, bytes |-> B(ca, wb)], [obj |-> s1, bytes |-> B(c2, wa)]}
MCProposed == (a1 :> None) @@ (s0 :> None)
              @@ (s1 :> [commit |-> c1, bundle |-> B(c1, wa), channel |-> "beta",
                         status |-> "new", run |-> r0])
MCRequests == {[obj |-> s1, channel |-> "beta"]}

\* A mirror promotion, its reversal, a removal, a new release that bypasses
\* the builder, one on the canonical host and an invalid one.
MCDrafts ==
    {[obj |-> a1, new |-> R(ca, wa, "stable", "mirror")],
     [obj |-> a1, new |-> R(ca, wa, "stable", "github")],
     [obj |-> a1, new |-> None],
     [obj |-> s1, new |-> R(c2, wa, "beta", "github")],
     [obj |-> s1, new |-> R(c2, wa, "beta", "mirror")],
     [obj |-> s1, new |-> R(c2, wa, "stable", "github")]}
=============================================================================
