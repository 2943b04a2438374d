--------------------------- MODULE MCCalculations ---------------------------
(***************************************************************************)
(* Small inputs: short months, a leap year, the turn of a year, payments   *)
(* out of order, balances of both signs.                                   *)
(***************************************************************************)
EXTENDS Calculations

MCRules == Rules({<<2023, 12, 31>>, <<2024, 1, 30>>, <<2024, 2, 29>>, <<2024, 3, 4>>},
                 {<<2024, 4, 29>>, <<2025, 2, 27>>})
MCRuleCases == [rule: MCRules, month: MonthIndex(<<2023, 12, 1>>) .. MonthIndex(<<2025, 3, 1>>)]

Rule(id, shape, status, kind, currency, cents) ==
  [id |-> id, start |-> shape[1], recurrence |-> shape[2], end |-> shape[3], status |-> status,
   kind |-> kind, currency |-> currency, cents |-> cents]
\* two rules that may meet on a day, in one month or the next
MCShapes == {<< <<2024, 1, 31>>, "MENSUELLE", NoDate>>, << <<2024, 2, 1>>, "HEBDOMADAIRE", <<2024, 3, 7>> >>,
             << <<2024, 2, 29>>, "ANNUELLE", NoDate>>, << <<2024, 3, 31>>, "AUCUNE", NoDate>>}
MCDecisions == LET feb == <<2024, 2, 29>>  march == <<2024, 3, 31>> IN
  {{}, {<<1, feb>>}, {<<2, feb>>}, {<<1, feb>>, <<1, march>>}, {<<1, march>>, <<2, feb>>}}
MCPlanCases ==
  {[rules |-> {Rule(1, shape, "CONFIRME", "DEPENSE", "EUR", 5), other}, decided |-> decided,
    month |-> MonthIndex(m), today |-> t] :
     shape \in {x \in MCShapes : x[2] \in {"MENSUELLE", "HEBDOMADAIRE"}},
     other \in {Rule(2, x, s, k, e, 3) : x \in MCShapes, s \in {"CONFIRME", "POTENTIEL"},
                                       k \in {"DEPENSE", "ENTREE"}, e \in {"EUR", "USD"}},
     decided \in MCDecisions, m \in {<<2024, 2, 1>>, <<2024, 3, 1>>},
     t \in {<<2024, 3, 1>>, <<2024, 4, 1>>, <<2025, 2, 1>>}}

February == MonthIndex(<<2024, 2, 1>>)
MCMovements ==
  {[day |-> d, cents |-> x[1], kind |-> x[2], link |-> x[3]] :
     d \in {3, 29}, x \in {<<5, "DEPENSE", 0>>, <<5, "DEPENSE", 1>>, <<7, "ENTREE", 2>>}}
MCPlans == [o \in 1 .. 2 |-> IF o = 1 THEN [planned |-> 8, kind |-> "DEPENSE"]
                             ELSE [planned |-> 6, kind |-> "ENTREE"]]
Status3 == {[today |-> <<2024, 2, 10>>, closed |-> FALSE, frozen |-> {}],
            [today |-> <<2024, 3, 1>>, closed |-> TRUE, frozen |-> {}],
            [today |-> <<2024, 3, 1>>, closed |-> TRUE, frozen |-> {4}]}
MCMonthCases ==
  {[budget |-> [month |-> February, today |-> s.today, income |-> 40, expense |-> e, carry |-> -3,
                movements |-> moves, plans |-> MCPlans, closed |-> s.closed, frozen |-> s.frozen],
    planned |-> <<[day |-> 29, kind |-> "ENTREE", cents |-> 9],
                  [day |-> 5, kind |-> "DEPENSE", cents |-> 4]>>,
    savings |-> 2] :
     e \in {11, 50}, s \in Status3, moves \in UNION {[1 .. n -> MCMovements] : n \in 0 .. 3}}

November == MonthIndex(<<2024, 11, 1>>)
Goal(target, saved, contribution, deadline) ==
  [target |-> target, saved |-> saved, contribution |-> contribution, deadline |-> deadline]
MCGoals == {g \in Goals({0, 7, 15, 25, 30}, {<<2024, 11, 30>>, <<2025, 1, 15>>}) :
              g.target = 30 /\ g.saved \in {0, 25, 30} /\ g.contribution \in {0, 7, 15}}
OtherGoals == {<<Goal(9, 2, 4, NoDate)>>, <<Goal(9, 9, 4, NoDate)>>}
Month4(k, expense) ==
  [month |-> November + k, today |-> IF k = 0 THEN <<2024, 11, 20>> ELSE First(November + k),
   income |-> 20, expense |-> expense, carry |-> 2,
   movements |-> <<[day |-> 2, cents |-> 3, kind |-> "DEPENSE", link |-> 0],
                   [day |-> 1, cents |-> 9, kind |-> "DEPENSE", link |-> 1]>>,
   plans |-> MCPlans, closed |-> FALSE, frozen |-> {}]
MCHorizonCases ==
  {[budgets |-> [k \in 1 .. 4 |-> Month4(k - 1, spent[k])],
    planned |-> [k \in 1 .. 4 |-> IF k = 3 THEN <<[day |-> 31, kind |-> "DEPENSE", cents |-> 6]>> ELSE <<>>],
    savings |-> GoalSavings(<<g>> \o others), offset |-> 1, goals |-> <<g>> \o others,
    selected |-> 1, assumed |-> a] :
     spent \in [1 .. 4 -> {5, 32}], g \in MCGoals, others \in OtherGoals,
     a \in {[current |-> 0, future |-> 0, margin |-> 0], [current |-> 3, future |-> 5, margin |-> 2]}}

MCRows == {{[id |-> 1, type |-> t, amount |-> a, share |-> s, period |-> p],
            [id |-> 2, type |-> "REVENU", amount |-> 2500, share |-> 10000, period |-> "MENSUELLE"]} :
             t \in {"CHARGE", "REVENU"}, a \in {5, 999, 1000}, s \in {3333, 5000, 10000},
             p \in {"MENSUELLE", "BIMESTRIELLE", "TRIMESTRIELLE", "SEMESTRIELLE", "ANNUELLE"}}
MCOccurrences == SUBSET {[source |-> 1, kind |-> "DEPENSE", planned |-> 700],
                         [source |-> 2, kind |-> "ENTREE", planned |-> 2400],
                         [source |-> 9, kind |-> "DEPENSE", planned |-> 50]}
MCChargeCases == [rows: MCRows, occurrences: MCOccurrences]

Operation(id, date, kind, cents, category) ==
  [id |-> id, date |-> date, kind |-> kind, cents |-> cents, category |-> category]
MCOperations == {Operation(1, <<2024, 2, 29>>, "DEPENSE", 10, 1),
                 Operation(2, <<2024, 3, 1>>, "ENTREE", 7, 2),
                 Operation(3, <<2024, 3, 3>>, "DEPENSE", 7, 2),
                 Operation(4, <<2024, 3, 4>>, "DEPENSE", 1, 1),
                 Operation(5, <<2024, 12, 31>>, "ENTREE", 5, 3),
                 Operation(6, <<2025, 1, 1>>, "DEPENSE", 5, 3)}
MCQueries == [from: {<<2024, 3, 1>>, <<2024, 3, 3>>, <<2024, 3, 4>>},
              to: {<<2024, 3, 3>>, <<2024, 3, 4>>, <<2024, 12, 31>>, <<2025, 3, 10>>},
              group: Reports!Temporal, split: {"", "category", "kind"},
              kind: {"", "DEPENSE", "ENTREE"}]
             \union [from: {<<2024, 2, 1>>, <<2024, 3, 2>>}, to: {<<2024, 3, 4>>, <<2025, 1, 1>>},
                     group: {"category", "kind"}, split: {""}, kind: {"", "DEPENSE", "ENTREE"}]
MCAnalyticsCases == [query: MCQueries, operations: {MCOperations}]

Occurrence(id, source, category, month, planned) ==
  [id |-> id, source |-> source, category |-> category, month |-> month, planned |-> planned]
MCEnvelopeRows == {Occurrence(1, 1, 0, 1, 10), Occurrence(2, 1, 5, 2, 10), Occurrence(3, 1, 5, 3, 12),
                   Occurrence(4, 2, 5, 2, 3), Occurrence(5, 2, 5, 3, 0)}
MCPayments == {[id |-> 1, link |-> 1, cents |-> 12], [id |-> 2, link |-> 2, cents |-> 4],
               [id |-> 3, link |-> 2, cents |-> 5], [id |-> 4, link |-> 4, cents |-> 3],
               [id |-> 5, link |-> 3, cents |-> 12]}
MCEnvelopeCases ==
  {[rows |-> rows, payments |-> {p \in paid : \E r \in rows : r.id = p.link}, current |-> now] :
     rows \in SUBSET MCEnvelopeRows \ {{}}, paid \in SUBSET MCPayments, now \in {3, 4}}

Fragment(name, type, issue, user) ==
  [name |-> name, type |-> type, issue |-> issue, user |-> user, text |-> TRUE]
MCFragments == {Fragment(1, "fixed", Releases!NoIssue, TRUE), Fragment(2, "added", 7, FALSE),
                Fragment(3, "removed", 7, TRUE), Fragment(4, "deprecated", 2, TRUE)}
Malformed == {Fragment(5, "others", 1, TRUE)}
Options(bump, version, dry) == [bump |-> bump, version |-> version, dryRun |-> dry]
MCOptions == {Options("", Releases!NoVersion, FALSE), Options("", Releases!NoVersion, TRUE),
              Options("patch", Releases!NoVersion, FALSE), Options("major", Releases!NoVersion, FALSE),
              Options("", <<1, 3, 1>>, FALSE), Options("minor", <<1, 3, 1>>, FALSE)}
Tree(unreleased, compared) ==
  [version |-> <<1, 2, 3>>, notes |-> [v \in {} |-> <<>>], pending |-> {},
   log |-> [sections |-> <<[version |-> <<1, 2, 3>>, body |-> <<>>]>>, unreleased |-> unreleased,
            compared |-> compared, links |-> {}]]
MCTrees == {Tree("absent", Releases!NoVersion), Tree("empty", <<1, 2, 3>>), Tree("filled", <<1, 2, 3>>)}
Whole == 100  \* more writes than a run can have
Run(added, options, cut) == [added |-> added, options |-> options, cut |-> cut]
MCReleaseCases ==
  [tree: MCTrees,
   runs: {<<Run(some, o, cut), Run(more \ some, p, next)>> :
            some \in {s \in SUBSET MCFragments : Cardinality(s) \in {1, 2}},
            more \in {{}, Malformed, MCFragments},
            o \in MCOptions, p \in {Options("", Releases!NoVersion, FALSE), Options("", <<1, 3, 1>>, FALSE)},
            cut \in 0 .. 4 \union {Whole}, next \in {4, Whole}}]

Image(id, level) == [id |-> id, level |-> level]
Server(image, schema, failed) ==
  [schema |-> schema, failed |-> failed, running |-> image, recorded |-> image,
   answers |-> image # Deployments!NoImage]
MCServers == {Server(Deployments!NoImage, 0, FALSE), Server(Image(1, 2), 2, FALSE),
              Server(Image(1, 2), 3, TRUE)}
\* one image repeats the level of another, one is older than what may run
MCDeployments == [image: {Image(2, 3), Image(3, 5), Image(4, 1)}, reached: {3, 4, 5},
                  healthy: BOOLEAN, restored: BOOLEAN, steps: 0 .. 3]
MCDeploymentCases ==
  {[server |-> s, runs |-> <<r, t>>] : s \in MCServers, r \in MCDeployments, t \in MCDeployments}
=============================================================================
