--------------------------- MODULE ResearchLookup ---------------------------
(***************************************************************************)
(* One query of the research service (cmd/api/research.go,                  *)
(* searxSearchWithLanguage): Google, then Google CSE, then what earlier     *)
(* lookups have left.  Redis keeps three things for a query: the rows of    *)
(* each engine for a quarter of an hour, the last good rows for six hours,  *)
(* and a circuit per engine while it answers with a captcha or a rate       *)
(* limit.  PostgreSQL keeps the sources of every completed request; those   *)
(* of the last week are the evidence of last resort.                        *)
(*                                                                          *)
(* Rows are abstracted to the instant Google gave them.  `links' is         *)
(* history: how often they have come back out of the ledger since.  Every   *)
(* call of Redis or PostgreSQL may fail, and what it wrote may be lost:     *)
(* none of those errors is looked at.                                       *)
(***************************************************************************)
EXTENDS Naturals

CONSTANTS
  Lookup,        \* requests that look one query up, each made once
  Fresh,         \* TTL of an engine's rows, in ticks
  Bypass,        \* TTL of an engine's circuit
  LastGood,      \* TTL of the last good rows
  Week,          \* how far back durable evidence is read
  MaxHold,       \* bound: ticks for which a request holds rows before it writes them
  MaxInstant,    \* bound on the clock
  MaxLinks,      \* bound: passages through the ledger
  NoRows         \* an answer without results

ASSUME LookupAssumption ==
  /\ Fresh \in Nat \ {0} /\ Bypass \in Nat \ {0} /\ Fresh <= LastGood /\ LastGood \in Nat
  /\ Week \in Nat /\ MaxHold \in Nat
  /\ MaxInstant \in Nat /\ MaxLinks \in Nat
  /\ NoRows \notin [born: Nat, links: Nat]

VARIABLES
  instant,
  rowsOf,        \* per engine: [rows, until], gone at `until'
  bypassed,      \* per engine: the instant its circuit expires; 0 is closed
  good,          \* [rows, until]
  evidence,      \* usage_ledger: [rows, at] of the requests completed that started
                 \* in the last week
  lookup         \* Lookup -> [pc, engine, failed, rows, from, since]: since it has
                 \* its rows or, when it is open, since its row was started

lookupVars == <<instant, rowsOf, bypassed, good, evidence, lookup>>

Engine == {"google", "google cse"}
Found == [born: 0..MaxInstant, links: 0..MaxLinks]
Entry == [rows: Found \cup {NoRows}, until: Nat]

LookupTypeOK ==
  /\ instant \in 0..MaxInstant
  /\ rowsOf \in [Engine -> Entry]
  /\ bypassed \in [Engine -> Nat]
  /\ good \in Entry
  /\ evidence \subseteq [rows: Found, at: 0..MaxInstant]
  /\ lookup \in [Lookup -> [pc: {"look", "ask", "reopen", "remember", "store", "recall", "ledger",
                                 "renew", "done", "open", "over"},
                            engine: Engine, failed: BOOLEAN,
                            rows: Found \cup {NoRows},
                            from: {"nowhere", "google", "cache", "good", "ledger"},
                            since: 0..MaxInstant]]

Unserved == [rows |-> NoRows, until |-> 0]
Anew == [pc |-> "look", engine |-> "google", failed |-> FALSE, rows |-> NoRows, from |-> "nowhere", since |-> 0]

Over == [Anew EXCEPT !.pc = "over"]

\* An earlier request may have left its rows in the ledger.
LookupInit ==
  /\ instant = 0
  /\ rowsOf = [e \in Engine |-> Unserved]
  /\ bypassed = [e \in Engine |-> 0]
  /\ good = Unserved
  /\ evidence \in {{}, {[rows |-> [born |-> 0, links |-> 0], at |-> 0]}}
  /\ lookup = [l \in Lookup |-> Anew]

Held(entry) == entry.until > instant

LookupStep(l, x) == lookup' = [lookup EXCEPT ![l] = x]

-----------------------------------------------------------------------------

\* mutant: what is kept is asked for whether or not an engine has failed.
GiveWayToOldRows(l, err) ==
  LET failed == lookup[l].failed \/ err IN
  IF lookup[l].engine = "google"
  THEN LookupStep(l, [lookup[l] EXCEPT !.pc = "look", !.engine = "google cse", !.failed = failed])
  ELSE LookupStep(l, [lookup[l] EXCEPT !.pc = "recall", !.failed = failed])

\* Google without rows is followed by Google CSE, CSE without rows by what is
\* kept, and that only when one of the two has failed.
GiveWay(l, err) ==
  LET failed == lookup[l].failed \/ err IN
  IF lookup[l].engine = "google"
  THEN LookupStep(l, [lookup[l] EXCEPT !.pc = "look", !.engine = "google cse", !.failed = failed])
  ELSE LookupStep(l, [lookup[l] EXCEPT !.pc = IF failed THEN "recall" ELSE "done",
                                       !.failed = failed])

\* The rows a lookup has got, and from where.
Get(l, pc, rows, from) ==
  LookupStep(l, [lookup[l] EXCEPT !.pc = pc, !.rows = rows, !.from = from, !.since = instant])

Moves(l, pc) == LookupStep(l, [lookup[l] EXCEPT !.pc = pc])

\* The two reads of Redis before a request to an engine: its rows, whatever
\* they are, and its circuit.  A read that fails is passed over.
Look(l) ==
  LET e == lookup[l].engine IN
  /\ lookup[l].pc = "look"
  /\ \/ Held(rowsOf[e]) /\ rowsOf[e].rows # NoRows /\ Get(l, "done", rowsOf[e].rows, "cache")
     \/ Held(rowsOf[e]) /\ rowsOf[e].rows = NoRows /\ GiveWay(l, FALSE)
     \/ bypassed[e] > instant /\ GiveWay(l, TRUE)
     \/ Moves(l, "ask")
  /\ UNCHANGED <<instant, rowsOf, bypassed, good, evidence>>

\* The engine answers with rows or without, refuses with a captcha or a rate
\* limit, which opens its circuit, or is unreachable.
Ask(l) ==
  LET e == lookup[l].engine IN
  /\ lookup[l].pc = "ask"
  /\ \/ Get(l, "reopen", [born |-> instant, links |-> 0], "google") /\ UNCHANGED bypassed
     \/ Moves(l, "store") /\ UNCHANGED bypassed
     \/ GiveWay(l, TRUE) /\ bypassed' \in {bypassed, [bypassed EXCEPT ![e] = instant + Bypass]}
  /\ UNCHANGED <<instant, rowsOf, good, evidence>>

\* DEL of the circuit of an engine that has given rows.
Reopen(l) ==
  /\ lookup[l].pc = "reopen" /\ Moves(l, "remember")
  /\ bypassed' \in {bypassed, [bypassed EXCEPT ![lookup[l].engine] = 0]}
  /\ UNCHANGED <<instant, rowsOf, good, evidence>>

\* SET of the last good rows, by an engine's answer or from the ledger.
SetGood(l) ==
  /\ \/ lookup[l].pc = "remember" /\ Moves(l, "store")
     \/ lookup[l].pc = "renew" /\ Moves(l, "done")
  /\ good' \in {good, [rows |-> lookup[l].rows, until |-> instant + LastGood]}
  /\ UNCHANGED <<instant, rowsOf, bypassed, evidence>>

\* SET of the rows of the engine, of an empty answer for half a minute; an
\* empty answer then gives way.
Store(l) ==
  LET e == lookup[l].engine
      rows == lookup[l].rows
      ttl == IF rows = NoRows THEN 1 ELSE Fresh
  IN
  /\ lookup[l].pc = "store"
  /\ rowsOf' \in {rowsOf, [rowsOf EXCEPT ![e] = [rows |-> rows, until |-> instant + ttl]]}
  /\ IF rows = NoRows THEN GiveWay(l, FALSE) ELSE Moves(l, "done")
  /\ UNCHANGED <<instant, bypassed, good, evidence>>

\* Neither engine has given rows and one of them failed: the last good rows, if
\* Redis has them.
Recall(l) ==
  /\ lookup[l].pc = "recall"
  /\ \/ Held(good) /\ Get(l, "done", good.rows, "good")
     \/ Moves(l, "ledger")
  /\ UNCHANGED <<instant, rowsOf, bypassed, good, evidence>>

\* RecentResearchSourceMetadata.
Recent == {x \in evidence : x.at + Week >= instant /\ x.rows.links < MaxLinks}

\* Of one URL the latest is taken.
Latest(recent) == CHOOSE x \in recent : \A y \in recent : y.at < x.at \/ (y.at = x.at /\ y.rows.born <= x.rows.born)

\* durableGoogleResearchEvidence, whose rows become the last good ones again; or
\* nothing, and the lookup ends without rows.
ReadLedger(l) ==
  /\ lookup[l].pc = "ledger"
  /\ \/ Recent # {} /\ Get(l, "renew", [Latest(Recent).rows EXCEPT !.links = @ + 1], "ledger")
     \/ Moves(l, "done")
  /\ UNCHANGED <<instant, rowsOf, bypassed, good, evidence>>

\* The request that looked starts its row, with the sources in its metadata,
StartRow(l) ==
  /\ lookup[l].pc = "done" /\ lookup[l].rows # NoRows
  /\ LookupStep(l, [Anew EXCEPT !.pc = "open", !.rows = lookup[l].rows, !.since = instant])
  /\ UNCHANGED <<instant, rowsOf, bypassed, good, evidence>>

\* and completes it, some time or other.
Record(l) ==
  /\ lookup[l].pc = "open"
  /\ evidence' = evidence \cup {[rows |-> lookup[l].rows, at |-> lookup[l].since]}
  /\ LookupStep(l, Over)
  /\ UNCHANGED <<instant, rowsOf, bypassed, good>>

\* A request that found nothing, failed, or has its row in another table.
Abandon(l) ==
  /\ lookup[l].pc \in {"done", "open"}
  /\ LookupStep(l, Over)
  /\ UNCHANGED <<instant, rowsOf, bypassed, good, evidence>>

\* Keys of Redis lapse, and rows of the ledger get too old to be read.  Whoever
\* has rows writes them, or starts its row, in MaxHold ticks.
Lapsed(entry) == IF entry.until > instant + 1 THEN entry ELSE Unserved
Holding(x) == x.rows # NoRows /\ x.pc # "open"

Pass ==
  /\ instant < MaxInstant
  /\ \A l \in Lookup : Holding(lookup[l]) => instant - lookup[l].since < MaxHold
  /\ instant' = instant + 1
  /\ rowsOf' = [e \in Engine |-> Lapsed(rowsOf[e])] /\ good' = Lapsed(good)
  /\ bypassed' = [e \in Engine |-> IF bypassed[e] > instant + 1 THEN bypassed[e] ELSE 0]
  /\ evidence' = {x \in evidence : x.at + Week > instant}
  /\ UNCHANGED lookup

LookupNext ==
  \/ \E l \in Lookup :
       \/ Look(l) \/ Ask(l) \/ Reopen(l) \/ SetGood(l) \/ Store(l)
       \/ Recall(l) \/ ReadLedger(l) \/ StartRow(l) \/ Record(l) \/ Abandon(l)
  \/ Pass

LookupSpec == LookupInit /\ [][LookupNext]_lookupVars

-----------------------------------------------------------------------------

\* research.go:885: the last good rows and those of the ledger are used only
\* when Google or Google CSE failed in this very lookup.  One of them is enough:
\* old rows also stand in for the empty answer of the other.
OldRowsOnlyAfterFailure ==
  \A l \in Lookup : lookup[l].from \in {"good", "ledger"} => lookup[l].failed

\* Rows a lookup ends with are less than six hours older than Google's answer,
\* and at most a week and six hours more for every passage through the ledger,
\* apart from what requests hold them for.  A passage renews them: their age has
\* no other bound.
AgeIsOfItsLinks ==
  \A l \in Lookup :
    (lookup[l].pc # "done" /\ lookup'[l].pc = "done" /\ lookup'[l].rows # NoRows) =>
      LET rows == lookup'[l].rows IN
      instant - rows.born < MaxHold + LastGood + rows.links * (2 * MaxHold + Week + LastGood)

\* Old rows stand in for a failed search only, and are as old as their way
\* through the ledger allows.
OldRowsAreHonest == [][OldRowsOnlyAfterFailure' /\ AgeIsOfItsLinks]_lookupVars

=============================================================================
