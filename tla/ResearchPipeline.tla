--------------------------- MODULE ResearchPipeline ---------------------------
(***************************************************************************)
(* The web research of one chat request (cmd/api/research.go,               *)
(* research_locality.go, research_grounding.go): it is decided, pages the   *)
(* user named are read, the plan is searched, the selected pages are        *)
(* fetched by goroutines of their own, what they say is verified, and the   *)
(* model's answer is checked against the evidence.  Any outside call may    *)
(* fail.  Which queries and which rows are chosen is in ResearchChoices.    *)
(***************************************************************************)
EXTENDS Naturals, FiniteSets

CONSTANTS
  Page,          \* the pages the request can meet
  MaxQueries,    \* researchSearchPlan: bound of the queries searched
  FetchPages     \* fetchN: pages fetched beside the ones read already

ASSUME PipelineAssumption == MaxQueries \in Nat \ {0} /\ FetchPages \in Nat \ {0}

VARIABLES
  progress,         \* where the request is
  wish,          \* [useWeb, deep, stream]: what was decided of it
  searched,      \* queries searched
  found,         \* pages the searches returned
  picked,        \* the sources selected: page -> [from, text]
  kept,          \* the sources verified
  completions,         \* completed calls of the model
  answer         \* what the client got

pipelineVars == <<progress, wish, searched, found, picked, kept, completions, answer>>

Origin == {"direct", "official", "web", "social"}
Text == {"none", "fetching", "relevant", "irrelevant"}
NoPicks == [p \in {} |-> [from |-> "web", text |-> "none"]]
NoWish == [useWeb |-> FALSE, deep |-> FALSE, stream |-> FALSE]

PipelineTypeOK ==
  /\ progress \in {"received", "direct", "searching", "reading", "enriched", "asked", "done", "failed"}
  /\ wish \in [useWeb: BOOLEAN, deep: BOOLEAN, stream: BOOLEAN]
  /\ searched \in 0..MaxQueries
  /\ found \subseteq Page /\ DOMAIN picked \subseteq Page /\ kept \subseteq DOMAIN picked
  /\ \A p \in DOMAIN picked : picked[p] \in [from: Origin, text: Text]
  /\ completions \in 0..2
  /\ answer \in {"none", "error", "supported", "unsupported", "fallback"}

PipelineInit ==
  /\ progress = "received" /\ wish = NoWish /\ searched = 0
  /\ found = {} /\ picked = NoPicks /\ kept = {} /\ completions = 0 /\ answer = "none"

-----------------------------------------------------------------------------

\* contextualResearchPlan: a question asks for the web by its mode, by its
\* words unless they are about an attached file, or by following one up.
DecidesForWeb(mode, suggests, suppressed, followUp) ==
  \/ mode = "web"
  \/ mode = "auto" /\ suggests /\ ~suppressed
  \/ mode # "off" /\ followUp

DecideOnWeb ==
  /\ progress = "received"
  /\ \E mode \in {"off", "auto", "web"}, suggests, suppressed, followUp, empty, deep, stream \in BOOLEAN :
       LET useWeb == DecidesForWeb(mode, suggests, suppressed, followUp) /\ ~empty IN
       /\ wish' = [useWeb |-> useWeb, deep |-> deep, stream |-> stream]
       /\ progress' = IF useWeb THEN "direct" ELSE "enriched"
  /\ UNCHANGED <<searched, found, picked, kept, completions, answer>>

\* enrichChatWithResearch: the trust boundary.  Without evidence the request
\* ends with an error instead of an answer of the model's memory.
FailClosed == progress' = "failed" /\ answer' = "error" /\ UNCHANGED kept

Result(sources) == progress' = "enriched" /\ kept' = sources /\ UNCHANGED answer

\* The pages the user named, each read at once; outside of a deep request
\* they are the whole research, and without a search service too.
ReadNamedPages ==
  /\ progress = "direct"
  /\ \E read \in SUBSET Page, configured \in BOOLEAN :
       /\ picked' = [p \in read |-> [from |-> "direct", text |-> "relevant"]]
       /\ CASE read # {} /\ (~wish.deep \/ ~configured) -> Result(read)
            [] read = {} /\ ~configured -> FailClosed
            [] OTHER -> progress' = "searching" /\ UNCHANGED <<kept, answer>>
  /\ UNCHANGED <<wish, searched, found, completions>>

\* One query, of the plan or for a host it discovered: one that fails
\* adds nothing.
Search ==
  /\ progress = "searching" /\ searched < MaxQueries
  /\ searched' = searched + 1
  /\ \E rows \in SUBSET Page : found' = found \cup rows
  /\ UNCHANGED <<progress, wish, picked, kept, completions, answer>>

\* No row: only the named pages are left.
NothingFound ==
  /\ progress = "searching" /\ searched = MaxQueries /\ found = {}
  /\ IF DOMAIN picked # {} THEN Result(DOMAIN picked) ELSE FailClosed
  /\ UNCHANGED <<wish, searched, found, picked, completions>>

\* Rows: linked official pages come with their text (discoverLinkedOfficial-
\* Sources, at most two), the rows that are relevant and of quality are
\* selected; social pages are not fetched, of the others the first FetchPages.
Select ==
  /\ progress = "searching" /\ searched = MaxQueries /\ found # {}
  /\ \E official \in SUBSET (Page \ DOMAIN picked), rows \in SUBSET (found \ DOMAIN picked) :
       /\ Cardinality(official) <= 2
       /\ \E social \in SUBSET (rows \ official) : \E fetch \in SUBSET (rows \ (official \cup social)) :
            /\ Cardinality(fetch) = IF Cardinality(rows \ (official \cup social)) < FetchPages
                                    THEN Cardinality(rows \ (official \cup social)) ELSE FetchPages
            /\ picked' = [p \in DOMAIN picked \cup official \cup rows |->
                            IF p \in DOMAIN picked THEN picked[p]
                            ELSE IF p \in official THEN [from |-> "official", text |-> "relevant"]
                            ELSE [from |-> IF p \in social THEN "social" ELSE "web",
                                  text |-> IF p \in fetch THEN "fetching" ELSE "none"]]
       /\ IF DOMAIN picked \cup official \cup rows = {} THEN FailClosed
          ELSE progress' = "reading" /\ UNCHANGED <<kept, answer>>
  /\ UNCHANGED <<wish, searched, found, completions>>

\* A goroutine writes what it fetched into its source; on an error the source
\* keeps its snippet.
Fetched(p) ==
  /\ p \in DOMAIN picked /\ picked[p].text = "fetching"
  /\ \E text \in {"none", "relevant", "irrelevant"} : picked' = [picked EXCEPT ![p].text = text]
  /\ UNCHANGED <<progress, wish, searched, found, kept, completions, answer>>

-----------------------------------------------------------------------------

\* mutant: the sources are verified as soon as one page is there.
FirstFetched == \E p \in DOMAIN picked : picked[p].text # "fetching"

\* wg.Wait.
AllFetched == \A p \in DOMAIN picked : picked[p].text # "fetching"

\* A fetched page about something else is dropped, except a named one.
OffTopic(p) == picked[p].from \in {"web", "official"} /\ picked[p].text = "irrelevant"

\* Verification: of the sources on topic the ones of quality are kept; a
\* named page is kept whatever its score.
Verify ==
  /\ progress = "reading" /\ AllFetched
  /\ \E weak \in SUBSET {p \in DOMAIN picked : picked[p].from # "direct"} :
       LET verified == {p \in DOMAIN picked : ~OffTopic(p)} \ weak IN
       IF verified = {} THEN FailClosed ELSE Result(verified)
  /\ UNCHANGED <<wish, searched, found, picked, completions>>

-----------------------------------------------------------------------------
(* The answer: proxyLiteLLM and proxyGuestInference.                        *)

Used == kept # {}

Deliver(what) == progress' = "done" /\ answer' = what

\* researchUnsupportedClaims: nothing to check without sources.
Supported(says) == ~Used \/ says = "supported"

\* bufferResearchStream: a researched answer is not streamed through.
Streams == wish.stream /\ ~Used

\* The first completion: refused, passed through, or buffered and checked.
Complete ==
  /\ progress = "enriched"
  /\ \/ Deliver("error") /\ UNCHANGED completions
     \/ \E says \in {"supported", "unsupported"} :
          /\ completions' = completions + 1
          /\ IF Streams \/ Supported(says) THEN Deliver(says)
             ELSE progress' = "asked" /\ UNCHANGED answer
  /\ UNCHANGED <<wish, searched, found, picked, kept>>

\* enforceResearchGrounding: one retry; the fallback lists the sources instead
\* when it fails or is unsupported again.
Ground(says) == Deliver(IF says = "supported" THEN says ELSE "fallback")

Retry ==
  /\ progress = "asked"
  /\ \/ Deliver("fallback") /\ UNCHANGED completions
     \/ \E says \in {"supported", "unsupported"} : completions' = completions + 1 /\ Ground(says)
  /\ UNCHANGED <<wish, searched, found, picked, kept>>

PipelineNext ==
  \/ DecideOnWeb \/ ReadNamedPages \/ Search \/ NothingFound \/ Select \/ Verify
  \/ Complete \/ Retry
  \/ \E p \in Page : Fetched(p)

PipelineSpec == PipelineInit /\ [][PipelineNext]_pipelineVars

-----------------------------------------------------------------------------

\* research.go:383, "never fall back to model memory": once the web was
\* decided for, the model is only asked with a source at hand, and what the
\* client then gets is an answer, checked, or an error.
FailsClosed ==
  wish.useWeb /\ (progress \in {"enriched", "asked"} \/ completions > 0) => kept # {}

\* No source the model is given turns out to be about something else: none is
\* still being fetched when the sources are verified, and every one of them
\* was read, or is kept by its snippet because its page could not be.
CitedWasVerified ==
  kept # {} => /\ \A p \in kept : picked[p].text # "fetching"
               /\ \A p \in kept : picked[p].from # "direct" => picked[p].text # "irrelevant"

\* research_grounding.go:209: of a researched request the client gets a
\* supported answer, the list of sources or an error, streamed or not.
AnswersAreGrounded ==
  Used => answer # "unsupported"

\* The trust boundary of a researched request, from the first search to what the
\* client gets.
EvidenceComesFirst == FailsClosed /\ CitedWasVerified /\ AnswersAreGrounded

=============================================================================
