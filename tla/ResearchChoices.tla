--------------------------- MODULE ResearchChoices ---------------------------
(***************************************************************************)
(* The two choices of a research request (cmd/api/research_locality.go):    *)
(* which queries to search, and which of the sources found to keep.  Both   *)
(* are functions of the request's preferences and of what its question asks *)
(* for; the texts are abstracted to the kind of a query and to the list a   *)
(* source is in, ordered by quality.                                        *)
(***************************************************************************)
EXTENDS Naturals, Sequences, FiniteSets, FiniteSetsExt, Functions

CONSTANTS
  MaxLocal,      \* bound: local pages found
  MaxSocial,     \* bound: local pages of communities found
  MaxGlobal,     \* bound: global pages found
  Limits         \* WebResearchMaxResults, 1 to 8

ASSUME ChoiceAssumption ==
  MaxLocal \in Nat /\ MaxSocial \in Nat /\ MaxGlobal \in Nat /\ Limits \subseteq 1..8

VARIABLES
  request,       \* what is chosen for
  chosen         \* <<>> until it is chosen

choiceVars == <<request, chosen>>

\* normalizeResearchScope: only a region has a local scope.
Preference == {p \in [thai: BOOLEAN, scope: {"local-first", "local-only", "global"}, deep: BOOLEAN] :
                 p.thai \/ p.scope = "global"}

\* researchPriceOnlyIntent: no question about community, law or science.
Intent == {i \in [fresh: BOOLEAN, social: BOOLEAN, priceOnly: BOOLEAN] :
             ~(i.priceOnly /\ i.social)}

LocalScope(r) == r.want.thai /\ r.want.scope # "global"

When(condition, rows) == IF condition THEN rows ELSE <<>>

-----------------------------------------------------------------------------
(* appendRowsN of the selection and add of the plan.                        *)

\* A row goes to the end of the list, unless the list is full or has it.
AppendRow(sources, row, atMost) ==
  IF Len(sources) >= atMost \/ \E i \in 1..Len(sources) : sources[i] = row
  THEN sources ELSE Append(sources, row)

\* At most maxAdd rows not in the list yet; 0 is without a bound.
AppendRowsN(sources, rows, maxAdd, limit) ==
  LET atMost == IF maxAdd > 0 THEN Min({limit, Len(sources) + maxAdd}) ELSE limit
      kept[n \in 0..Len(rows)] ==
        IF n = 0 THEN sources ELSE AppendRow(kept[n - 1], rows[n], atMost)
  IN kept[Len(rows)]

\* Step after step: rows, and how many of them at most.
Fill(limit, steps) ==
  LET filled[k \in 0..Len(steps)] ==
        IF k = 0 THEN <<>> ELSE AppendRowsN(filled[k - 1], steps[k][1], steps[k][2], limit)
  IN filled[Len(steps)]

-----------------------------------------------------------------------------
(* researchSearchPlan.                                                      *)

Topic == [comparison: BOOLEAN, entity: BOOLEAN, field: {"any", "regulatory", "academic"},
          variants: 1..3]

PlanRequest == {r \in [kind: {"plan"}, want: Preference, asks: Intent, topic: Topic] :
                  r.asks.priceOnly => r.topic.field = "any"}

Query(name, region) == [name |-> name, region |-> region]

\* add: not beyond the budget, and no query twice.
WithinBudget(budget, queries) == AppendRowsN(<<>>, queries, 0, budget)

Variants(r) == SubSeq(<<Query("question", "GLOBAL"), Query("site", "GLOBAL"), Query("host", "GLOBAL")>>,
                      1, r.topic.variants)

ComparisonPlan(r) ==
  WithinBudget(4,
      When(LocalScope(r), <<Query("left thai", "TH"), Query("right thai", "TH")>>)
      \o When(r.want.scope # "local-only", <<Query("left", "GLOBAL"), Query("right", "GLOBAL")>>)
      \o <<Query("left vs right", "GLOBAL")>>)

EntityPlan(r) ==
  LET local ==
        When(r.topic.field # "any", <<Query("site of the field", "TH")>>)
        \o (IF r.topic.entity THEN <<Query("entity thai", "TH"), Query("distributor", "TH")>>
                              ELSE <<Query("question thai", "TH")>>)
        \o When(~r.asks.priceOnly /\ (r.want.deep \/ r.asks.social), <<Query("community thai", "TH")>>)
  IN WithinBudget(IF r.asks.priceOnly THEN 2 ELSE 4,
        When(LocalScope(r), local)
        \o When(~r.asks.priceOnly /\ r.want.scope # "local-only", <<Query("specifications", "GLOBAL")>>)
        \o Variants(r))

SearchPlan(r) == IF r.topic.comparison THEN ComparisonPlan(r) ELSE EntityPlan(r)

-----------------------------------------------------------------------------
(* The selection of webResearchWithPreferences.                             *)

\* How many sources each list has.  The local sources of the current market
\* are also in the list of local pages, and a page of an official site that
\* was linked may be one of them too.
Finding == {f \in [direct: 0..1, official: 0..2, local: 0..MaxLocal, current: 0..1,
                   localSocial: 0..MaxSocial, global: 0..MaxGlobal, globalSocial: 0..1, twin: BOOLEAN] :
              /\ f.current <= f.local
              /\ f.twin => f.official > 0 /\ f.local > 0}

PickRequest == [kind: {"pick"}, want: Preference, asks: Intent, found: Finding, limit: Limits]

Source(list, i) == [list |-> list, n |-> i]
List(list, n) == [i \in 1..n |-> Source(list, i)]

Direct(r) == List("direct", r.found.direct)
Official(r) == [i \in 1..r.found.official |->
                  IF i = 1 /\ r.found.twin THEN Source("local", 1) ELSE Source("official", i)]
LocalWeb(r) == List("local", r.found.local)
\* The best of the current market is the last of the local pages.
LocalCurrent(r) == IF r.found.current = 1 /\ r.asks.fresh
                   THEN <<Source("local", r.found.local)>> ELSE <<>>
GlobalWeb(r) == List("global", r.found.global)

\* A price question passes over what the search finds in communities.
LocalSocial(r) == IF r.asks.priceOnly THEN <<>> ELSE List("local social", r.found.localSocial)

GlobalSocial(r) == IF r.asks.priceOnly THEN <<>> ELSE List("global social", r.found.globalSocial)

SourceLimit(r) == IF r.asks.priceOnly THEN Min({r.limit, 6}) ELSE r.limit

\* The current market first; then a share for each list, in depth Thailand
\* before the world; then whatever there is room for.
LocalSteps(r) ==
  LET small == SourceLimit(r) <= 5
      worldwide(rows) == When(r.want.scope # "local-only", rows)
      ofPeople(rows) == When(r.want.deep \/ r.asks.social, rows)
      share(inDepth, otherwise) == IF r.want.deep THEN inDepth ELSE otherwise
  IN <<<<Direct(r), 0>>, <<Official(r), 2>>, <<LocalCurrent(r), 1>>,
       <<LocalWeb(r), share(IF small THEN 2 ELSE 3, 0)>>,
       <<ofPeople(LocalSocial(r)), share(IF r.asks.priceOnly THEN 0 ELSE IF small THEN 1 ELSE 2, 1)>>,
       <<worldwide(GlobalWeb(r)), share(IF small THEN 1 ELSE 2, 2)>>,
       <<worldwide(ofPeople(GlobalSocial(r))), 1>>,
       <<LocalWeb(r), 0>>, <<LocalSocial(r), 0>>,
       <<worldwide(GlobalWeb(r)), 0>>, <<worldwide(GlobalSocial(r)), 0>>>>

GlobalSteps(r) ==
  LET ofPeople(rows) == When(r.want.deep \/ r.asks.social, rows)
      share(inDepth, otherwise) == IF r.want.deep THEN inDepth ELSE otherwise
  IN <<<<Direct(r), 0>>, <<Official(r), 2>>,
       <<GlobalWeb(r), share(5, 0)>>, <<ofPeople(GlobalSocial(r)), share(3, 1)>>,
       <<GlobalWeb(r), 0>>, <<GlobalSocial(r), 0>>, <<LocalWeb(r), 0>>, <<LocalSocial(r), 0>>>>

\* mutant: the quota of the local pages is the whole limit in depth too.
LocalTakesAll(r) ==
  Fill(SourceLimit(r),
      <<<<Direct(r), 0>>, <<Official(r), 2>>, <<LocalWeb(r), 0>>, <<LocalSocial(r), 0>>>>
      \o When(r.want.scope # "local-only", <<<<GlobalWeb(r), 0>>, <<GlobalSocial(r), 0>>>>))

Selection(r) == Fill(SourceLimit(r), IF LocalScope(r) THEN LocalSteps(r) ELSE GlobalSteps(r))

-----------------------------------------------------------------------------

ChoiceInit == request \in PlanRequest \cup PickRequest /\ chosen = <<>>

Choose ==
  /\ chosen = <<>>
  /\ chosen' = <<IF request.kind = "plan" THEN SearchPlan(request) ELSE Selection(request)>>
  /\ UNCHANGED request

ChoiceNext == Choose

ChoiceSpec == ChoiceInit /\ [][ChoiceNext]_choiceVars

-----------------------------------------------------------------------------

Planned == IF chosen # <<>> /\ request.kind = "plan" THEN chosen[1] ELSE <<>>
Picked == IF chosen # <<>> /\ request.kind = "pick" THEN chosen[1] ELSE <<>>
Chosen == chosen # <<>>

Lists(picked) == {picked[i].list : i \in 1..Len(picked)}

\* research_locality.go:252: a current-price lookup spends at most two queries
\* of Google's budget and none on communities, every other one at most four;
\* in a local scope the first is local, and a comparison searches both sides
\* wherever it searches one.
PlanFitsTheQuestion ==
  (Chosen /\ request.kind = "plan") =>
    LET names == {Planned[i].name : i \in 1..Len(Planned)} IN
    /\ Len(Planned) \in 1..4
    /\ request.asks.priceOnly /\ ~request.topic.comparison =>
         Len(Planned) <= 2 /\ "community thai" \notin names
    /\ LocalScope(request) => Planned[1].region = "TH"
    /\ "left thai" \in names <=> "right thai" \in names
    /\ "left" \in names <=> "right" \in names

\* The sources kept are within the limit, none twice; while there is room
\* nothing the scope admits is left out; a price question keeps nothing of
\* communities and a local-only one nothing global.
SelectionIsFull ==
  (Chosen /\ request.kind = "pick") =>
    LET worldwide == IF request.want.scope = "local-only" THEN {}
                     ELSE Range(GlobalWeb(request))
        community == IF request.asks.priceOnly THEN {}
                     ELSE {s \in Range(List("local social", request.found.localSocial))
                                 \cup Range(List("global social", request.found.globalSocial)) :
                             s.list = "local social" \/ request.want.scope # "local-only"}
        admitted == Range(Direct(request)) \cup Range(Official(request))
                    \cup Range(LocalWeb(request)) \cup worldwide \cup community
    IN
    /\ \A i, j \in 1..Len(Picked) : i # j => Picked[i] # Picked[j]
    /\ Range(Picked) \subseteq admitted
    /\ Len(Picked) = Min({SourceLimit(request), Cardinality(admitted)})

\* The first shares of a local scope in depth, of at least five sources, leave
\* room; six of them are spent on the current market, local pages and
\* communities.
LeavesRoom(r) ==
  SourceLimit(r) >= 5 /\ (SourceLimit(r) = 6 => ~r.asks.fresh \/ r.asks.priceOnly)

\* research_locality.go:973: in depth Thailand comes first and room is left
\* for global corroboration even under the five-source cap: if any global page
\* was found, one is kept.  Pages the user named and linked official pages
\* come before both and may take the room.
GlobalCorroborates ==
  (Chosen /\ request.kind = "pick") =>
    ((/\ request.want.deep /\ request.want.scope = "local-first"
      /\ request.found.direct = 0 /\ request.found.official = 0
      /\ request.found.global > 0
      /\ LeavesRoom(request))
     => "global" \in Lists(Picked))

\* Every plan and every selection, for all preferences, questions and findings
\* within the bounds.
ChoicesFit == PlanFitsTheQuestion /\ SelectionIsFull /\ GlobalCorroborates

=============================================================================
