------------------------------- MODULE Release -------------------------------
(***************************************************************************)
(* scripts/release.cjs: the fragments of changes/unreleased become a       *)
(* section of CHANGELOG.md and a file of user notes, and the version of    *)
(* package.json moves.  A tree holds these files; a run of prepare leaves  *)
(* another tree, complete or cut off after some of its writes.             *)
(*                                                                         *)
(* A version is a triple; a section and a file of notes list the           *)
(* fragments in the order they are printed.                                *)
(***************************************************************************)
EXTENDS Integers, Sequences, FiniteSets, SequencesExt

\* in the order of the sections of the changelog; a type that is not among them is unknown
Types == <<"added", "changed", "deprecated", "removed", "fixed", "security">>
UserSections == <<{"added"}, {"changed"}, {"fixed"}, {"security"}, {"deprecated", "removed"}>>
NoIssue == 1000000  \* a fragment without an issue is printed last
NoVersion == <<>>   \* no --version
Versions == Nat \X Nat \X Nat

\* version a is older than version b (compareVersions)
Older(a, b) == \/ a[1] < b[1]
               \/ a[1] = b[1] /\ a[2] < b[2]
               \/ a[1] = b[1] /\ a[2] = b[2] /\ a[3] < b[3]

BumpVersion(v, bump) == CASE bump = "major" -> <<v[1] + 1, 0, 0>>
                          [] bump = "minor" -> <<v[1], v[2] + 1, 0>>
                          [] bump = "patch" -> <<v[1], v[2], v[3] + 1>>

RequiredBump(fragments) ==
  LET types == {f.type : f \in fragments} IN
  IF "removed" \in types THEN "major"
  ELSE IF {"added", "changed", "deprecated"} \intersect types # {} THEN "minor" ELSE "patch"
-----------------------------------------------------------------------------
(* Fragments: a name that orders the files, a type, an issue, a user line   *)

\* the files of a project: a name is used once
IsFragments(fragments) ==
  /\ IsFiniteSet(fragments)
  /\ \A f \in fragments : f.name \in Int /\ f.issue \in Int /\ {f.user, f.text} \subseteq BOOLEAN
  /\ \A f, g \in fragments : f.name = g.name => f = g

\* parseFragment
WellFormed(f) == f.type \in Range(Types) /\ f.text

\* the elements of a set as a sequence in an order
InOrder(S, Before(_, _)) ==
  CHOOSE s \in [1 .. Cardinality(S) -> S] : \A i, j \in DOMAIN s : i < j => Before(s[i], s[j])

ByName(fragments) == InOrder(fragments, LAMBDA f, g : f.name < g.name)

SectionOf == [type \in Range(Types) |-> CHOOSE i \in DOMAIN Types : Types[i] = type]
UserSectionOf ==
  [type \in Range(Types) |-> CHOOSE i \in DOMAIN UserSections : type \in UserSections[i]]

\* by section, then by issue, then by name
Printed(fragments, section) ==
  InOrder(fragments, LAMBDA f, g :
    \/ section[f.type] < section[g.type]
    \/ section[f.type] = section[g.type] /\ f.issue < g.issue
    \/ section[f.type] = section[g.type] /\ f.issue = g.issue /\ f.name < g.name)

RenderBody(fragments) == Printed(fragments, SectionOf)
RenderUserNotes(fragments) == Printed({f \in fragments : f.user}, UserSectionOf)
-----------------------------------------------------------------------------
(* The changelog: its sections, newest first; what stands under its         *)
(* [Unreleased] heading ("absent", "empty" or "filled"); the version its    *)
(* [Unreleased] link compares with, and the links of versions               *)

\* on top of the other sections, before the links when there is no section
InsertRelease(log, version, body) ==
  [log EXCEPT !.sections = <<[version |-> version, body |-> body]>> \o log.sections]

\* the link is left alone when it does not start from the version before
UpdateLinks(log, previous, version) ==
  IF log.compared # previous THEN log
  ELSE [log EXCEPT !.compared = version, !.links = log.links \union {<<previous, version>>}]

\* the first section of that version, up to the next one
ExtractNotes(log, version) ==
  log.sections[SelectInSeq(log.sections, LAMBDA s : s.version = version)].body

\* release.cjs notes: the user notes, when there is a file, and the section
ComposedNotes(tree, version) ==
  [user |-> IF version \in DOMAIN tree.notes THEN {tree.notes[version]} ELSE {},
   technical |-> ExtractNotes(tree.log, version)]
-----------------------------------------------------------------------------
(* release.cjs prepare                                                      *)

\* parseOptions: a bump among three or a version, not both
Accepted(options) == /\ options.bump \in {"", "patch", "minor", "major"}
                     /\ options.bump = "" \/ options.version = NoVersion

Target(tree, options) ==
  IF options.version # NoVersion THEN options.version
  ELSE BumpVersion(tree.version,
                   IF options.bump # "" THEN options.bump ELSE RequiredBump(tree.pending))

Refused(tree, options) ==
  \/ ~Accepted(options)
  \/ \E f \in tree.pending : ~WellFormed(f)
  \/ tree.pending = {}
  \/ ~Older(tree.version, Target(tree, options))
  \/ Older(Target(tree, options), BumpVersion(tree.version, RequiredBump(tree.pending)))
  \/ tree.log.unreleased = "filled"
  \/ Target(tree, options) \in DOMAIN tree.notes

\* Fault: the fragments are removed before what is made of them is written
UnlinkFirst(tree, version, writes) ==
  LET names == ByName(tree.pending)
      n == Len(names)
      log == InsertRelease(tree.log, version, RenderBody(tree.pending)) IN
  [version |-> IF writes > 0 THEN version ELSE tree.version,
   log     |-> IF writes > n + 1 THEN UpdateLinks(log, tree.version, version) ELSE tree.log,
   notes   |-> IF writes > n + 2
               THEN [v \in DOMAIN tree.notes \union {version} |->
                       IF v = version THEN RenderUserNotes(tree.pending) ELSE tree.notes[v]]
               ELSE tree.notes,
   pending |-> tree.pending \ {names[i] : i \in 1 .. (IF writes > n THEN n ELSE writes - 1)}]

\* after that many writes: npm version, the changelog, the notes, then each fragment is removed
Written(tree, version, writes) ==
  LET names == ByName(tree.pending)
      log == InsertRelease(tree.log, version, RenderBody(tree.pending)) IN
  [version |-> IF writes > 0 THEN version ELSE tree.version,
   log     |-> IF writes > 1 THEN UpdateLinks(log, tree.version, version) ELSE tree.log,
   notes   |-> IF writes > 2
               THEN [v \in DOMAIN tree.notes \union {version} |->
                       IF v = version THEN RenderUserNotes(tree.pending) ELSE tree.notes[v]]
               ELSE tree.notes,
   pending |-> tree.pending \ {names[i] : i \in 1 .. writes - 3}]

\* Every write when the run is not cut off; none in a dry run.
Prepare(tree, options, cut) ==
  IF options.dryRun \/ Refused(tree, options) THEN tree
  ELSE LET all == 3 + Cardinality(tree.pending)
       IN Written(tree, Target(tree, options), IF cut < all THEN cut ELSE all)

\* before the first run: one section, that of the package's version, and a link that compares
\* with it, if any
IsProject(tree) ==
  /\ DOMAIN tree = {"version", "log", "notes", "pending"}
  /\ tree.version \in Versions
  /\ DOMAIN tree.log = {"sections", "unreleased", "compared", "links"}
  /\ LET body == tree.log.sections[1].body IN
     /\ tree.log.sections = <<[version |-> tree.version, body |-> body]>>
     /\ body \in Seq(Range(body))
  /\ tree.log.compared \in {NoVersion, tree.version}

\* all fragments of a series of runs
FragmentsOf(tree, runs) == tree.pending \union UNION {runs[i].added : i \in DOMAIN runs}

\* a fragment is added once, and not when it is pending or printed already
IsSeries(tree, runs) ==
  LET earlier(i) == UNION {runs[j].added : j \in 1 .. i - 1} IN
  /\ IsProject(tree)
  /\ IsFragments(FragmentsOf(tree, runs))
  /\ runs \in Seq(Range(runs))
  /\ \A i \in DOMAIN runs :
       /\ runs[i].added \intersect (Range(tree.log.sections[1].body) \union tree.pending \union earlier(i)) = {}
       /\ runs[i].options.version \in Versions \union {NoVersion}
       /\ runs[i].cut \in Nat

\* a series of runs, fragments added before each
Trees(tree, runs) ==
  LET after[i \in 0 .. Len(runs)] ==
        IF i = 0 THEN tree
        ELSE Prepare([after[i - 1] EXCEPT !.pending = @ \union runs[i].added],
                     runs[i].options, runs[i].cut)
  IN [i \in 1 .. Len(runs) |-> after[i]]
=============================================================================
