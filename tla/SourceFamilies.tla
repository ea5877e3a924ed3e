--------------------------- MODULE SourceFamilies ---------------------------
(***************************************************************************)
(* One call of a source family, from the choice of its tool to the items   *)
(* and the acquisition status it returns.  A tool searches, may fetch the  *)
(* full text of the best hits (the web in one batch, papers and docs one   *)
(* by one), and makes an item of every hit it can normalize.  Nothing is   *)
(* retried here: a failed search fails the call, a failed fetch leaves the *)
(* item with what the search said.                                         *)
(*                                                                         *)
(* A text is the set of statements it makes: containment of texts is set   *)
(* inclusion, their length is the number of statements.                    *)
(***************************************************************************)
EXTENDS FiniteSets, SequencesExt

CONSTANTS
    Doc,            \* documents, papers, pages and knowledge units
    Statement,      \* what texts say
    FullText,       \* of each document: its full text
    Offered,        \* of each family: the lists of hits its provider may return
    MaxResults,     \* max_search_results, or the limit of a recall
    MaxFetches,     \* max_content_fetches, or fetch_top_pages
    None

SourceFamily == {"web_search", "paper_search", "docs_search", "research_knowledge_recall"}
Text == SUBSET Statement

\* What a search may return.  A hit is preferred when its score reaches the
\* threshold (web) or its identifier is an arXiv one (papers: the client makes no
\* other).  Its first source names it.  An abstract may be missing, while results
\* without a snippet, entries without a title and empty units are never returned.
Hit == [doc: Doc, snippet: Text, preferred: BOOLEAN, sources: Seq(Doc)]

NamesItself(hit) == hit.sources = <<hit.doc>>

WebHit(hit) == hit.snippet # {} /\ NamesItself(hit)
PaperHit(hit) == hit.preferred /\ NamesItself(hit)
DocsHit(hit) == hit.snippet # {} /\ NamesItself(hit)
KnowledgeHit(hit) == hit.snippet # {} /\ hit.sources # <<>>

ASSUME TextAssumption == IsFiniteSet(Statement) /\ FullText \in [Doc -> Text]
ASSUME OfferedAssumption ==
    /\ \A f \in SourceFamily : Offered[f] \subseteq Seq(Hit)
    /\ \A found \in Offered["web_search"] : \A i \in DOMAIN found : WebHit(found[i])
    /\ \A found \in Offered["paper_search"] : \A i \in DOMAIN found : PaperHit(found[i])
    /\ \A found \in Offered["docs_search"] : \A i \in DOMAIN found : DocsHit(found[i])
    /\ \A found \in Offered["research_knowledge_recall"] :
        \A i \in DOMAIN found : KnowledgeHit(found[i])
    \* A recall returns rows of a table, each of them once.
    /\ \A found \in Offered["research_knowledge_recall"] :
        \A i, j \in DOMAIN found : found[i].doc = found[j].doc => i = j
ASSUME LimitAssumption == MaxResults \in Nat \ {0} /\ MaxFetches \in Nat

VARIABLES
    family,         \* the family that was called, or None
    toolStep,       \* what its tool does next
    hits,           \* what the search returned, as the tool took it
    malformed,      \* whether the provider sent entries that are dropped
    pages,          \* of each hit fetched so far: how that ended
    items,          \* the items of the family's result
    acquisition     \* the acquisition status of the result, or None

toolVars == <<family, toolStep, hits, malformed, pages, items, acquisition>>

ToolStep == {"select_tool", "search", "fetch", "assemble", "returned"}
AcquisitionStatus == {"success", "partial_success", "no_result", "failed"}
FetchStatus == {"succeeded", "empty", "failed", "not_requested"}

Item == [doc: Doc, family: SourceFamily, content: Text, fetch: FetchStatus,
         sources: Seq(Doc)]

ToolInit ==
    /\ family = None
    /\ toolStep = "select_tool"
    /\ hits = <<>>
    /\ malformed = FALSE
    /\ pages = <<>>
    /\ items = <<>>
    /\ acquisition = None

Returns(status, result) ==
    /\ toolStep' = "returned"
    /\ acquisition' = status
    /\ items' = result

-----------------------------------------------------------------------------
(* The choice of the tool.                                                  *)

SelectTool(f) ==
    /\ toolStep = "select_tool"
    /\ family' = f
    /\ toolStep' = "search"
    /\ UNCHANGED <<hits, malformed, pages, items, acquisition>>

\* No tool is registered, or not the preferred one.
NoTool(f) ==
    /\ toolStep = "select_tool"
    /\ family' = f
    /\ Returns("failed", <<>>)
    /\ UNCHANGED <<hits, malformed, pages>>

-----------------------------------------------------------------------------
(* The search.                                                              *)

\* The provider fails, or answers what cannot be read; a recall may also fail at
\* the embedding of its query.
SearchRaises ==
    /\ toolStep = "search"
    /\ Returns("failed", <<>>)
    /\ UNCHANGED <<family, hits, malformed, pages>>

SearchFindsNothing ==
    /\ toolStep = "search"
    /\ Returns("no_result", <<>>)
    /\ UNCHANGED <<family, hits, malformed, pages>>

FirstOnes(found) == SubSeq(found, 1, IF Len(found) < MaxResults THEN Len(found) ELSE MaxResults)

SearchFinds(f, dropped, next) ==
    /\ toolStep = "search"
    /\ family = f
    /\ \E found \in Offered[f] : found # <<>> /\ hits' = FirstOnes(found)
    /\ malformed' = dropped
    /\ toolStep' = next
    /\ UNCHANGED <<family, pages, items, acquisition>>

\* Results and feed entries that cannot be normalized are dropped and not counted.
SearchWeb == SearchFinds("web_search", FALSE, "fetch")

SearchPapers == SearchFinds("paper_search", FALSE, "fetch")

\* Manifest lines that are no usable entries are counted as dropped.
SearchDocs == \E dropped \in BOOLEAN : SearchFinds("docs_search", dropped, "fetch")

\* So are recalled units that make no item.
RecallKnowledge ==
    \E dropped \in BOOLEAN : SearchFinds("research_knowledge_recall", dropped, "assemble")

-----------------------------------------------------------------------------
(* The full texts.                                                          *)

FirstOf(indexes, n) == {i \in indexes : Cardinality({j \in indexes : j < i}) < n}

\* The web tool takes the hits with a good score first and fills up with others;
\* hits of one page are fetched once.
FirstHitOf(i) == \A j \in 1..(i - 1) : hits[j].doc # hits[i].doc

WebSelection ==
    LET good == FirstOf({i \in DOMAIN hits : hits[i].preferred}, MaxFetches)
        others == {i \in DOMAIN hits :
                    /\ FirstHitOf(i)
                    /\ \A j \in good : hits[j].doc # hits[i].doc}
    IN good \cup FirstOf(others, MaxFetches - Cardinality(good))

\* The paper tool takes papers with an arXiv identifier only.
PaperSelection == FirstOf({i \in DOMAIN hits : hits[i].preferred}, MaxFetches)

\* The docs client takes the pages of the best entries.
DocsSelection == FirstOf(DOMAIN hits, MaxFetches)

Selection ==
    CASE family = "web_search" -> WebSelection
      [] family = "paper_search" -> PaperSelection
      [] family = "docs_search" -> DocsSelection
      [] OTHER -> {}

\* How a fetch may end.  What a document does not say is not extracted from it.
PageResult(doc) ==
    {"empty", "failed"} \cup (IF FullText[doc] = {} THEN {} ELSE {"succeeded"})

\* One request for all pages: it fails as a whole, or tells of each page whether it
\* was extracted; a page it does not mention counts as failed.
FetchWebPages ==
    /\ toolStep = "fetch"
    /\ family = "web_search"
    /\ \E outcome \in [{hits[i].doc : i \in Selection} -> FetchStatus] :
        /\ \A doc \in DOMAIN outcome : outcome[doc] \in PageResult(doc)
        /\ pages' = [i \in Selection |-> outcome[hits[i].doc]]
    /\ toolStep' = "assemble"
    /\ UNCHANGED <<family, hits, malformed, items, acquisition>>

\* Papers and docs pages are fetched one after the other; one that fails does not
\* keep the next from being fetched.
NextPage == CHOOSE i \in Selection \ DOMAIN pages :
                \A j \in Selection \ DOMAIN pages : i <= j

FetchNextPage(f) ==
    /\ toolStep = "fetch"
    /\ family = f
    /\ Selection \ DOMAIN pages # {}
    /\ \E end \in PageResult(hits[NextPage].doc) :
        pages' = [i \in DOMAIN pages \cup {NextPage} |->
                    IF i = NextPage THEN end ELSE pages[i]]
    /\ UNCHANGED <<family, toolStep, hits, malformed, items, acquisition>>

\* A PDF is downloaded and its text extracted; either may fail.
FetchPaper == FetchNextPage("paper_search")

FetchDocsPage == FetchNextPage("docs_search")

\* The docs client keeps the errors it raised itself to the page; any other fails the
\* call, and what the search found is lost.
FetchDocsRaises ==
    /\ toolStep = "fetch"
    /\ family = "docs_search"
    /\ Selection \ DOMAIN pages # {}
    /\ Returns("failed", <<>>)
    /\ UNCHANGED <<family, hits, malformed, pages>>

FetchEnds ==
    /\ toolStep = "fetch"
    /\ family # "web_search"
    /\ Selection \subseteq DOMAIN pages
    /\ toolStep' = "assemble"
    /\ UNCHANGED <<family, hits, malformed, pages, items, acquisition>>

-----------------------------------------------------------------------------
(* The result.                                                              *)

\* Web pages and papers are looked up by their document, docs pages by their place:
\* an entry beyond the fetched ones keeps its summary even when its page was fetched
\* for another entry.
FetchesOf(i) ==
    {j \in DOMAIN pages : IF family = "docs_search" THEN j = i
                                                   ELSE hits[j].doc = hits[i].doc}

FetchStatusOf(i) ==
    IF FetchesOf(i) = {} THEN "not_requested" ELSE pages[CHOOSE j \in FetchesOf(i) : TRUE]

ItemWith(i, content) ==
    [doc |-> hits[i].doc, family |-> family, content |-> content,
     fetch |-> FetchStatusOf(i), sources |-> hits[i].sources]

\* Deviation: a page that could not be fetched leaves the item empty.
PageOrNothing(i) ==
    ItemWith(i, IF FetchStatusOf(i) = "succeeded" THEN FullText[hits[i].doc]
                ELSE IF FetchStatusOf(i) = "not_requested" THEN hits[i].snippet ELSE {})

\* The extracted page, or the snippet of the search.
WebItem(i) ==
    ItemWith(i, IF FetchStatusOf(i) = "succeeded" THEN FullText[hits[i].doc]
                                                 ELSE hits[i].snippet)

\* The text of the paper, or its abstract, if it has one.
PaperItem(i) ==
    ItemWith(i, IF FetchStatusOf(i) = "succeeded" THEN FullText[hits[i].doc]
                                                 ELSE hits[i].snippet)

\* The part of the page that fits the query, or the summary of the manifest.
DocsItem(i) ==
    ItemWith(i, IF FetchStatusOf(i) = "succeeded" THEN FullText[hits[i].doc]
                                                 ELSE hits[i].snippet)

\* The summary of the unit, with all its sources.
KnowledgeItem(i) == ItemWith(i, hits[i].snippet)

Fetched(status) == \E i \in DOMAIN hits : FetchStatusOf(i) = status

\* Complete when pages were fetched and every one had text.
WebAcquisition ==
    IF Fetched("succeeded") /\ ~Fetched("failed") /\ ~Fetched("empty")
    THEN "success" ELSE "partial_success"

PaperAcquisition ==
    IF DOMAIN pages = {} \/ Fetched("failed") \/ Fetched("empty") \/ ~Fetched("succeeded")
    THEN "partial_success" ELSE "success"

\* Complete when no entry was dropped, whatever became of the pages.
DropAcquisition == IF malformed THEN "partial_success" ELSE "success"

Assemble(f, status, made) ==
    /\ toolStep = "assemble"
    /\ family = f
    /\ Returns(status, made)
    /\ UNCHANGED <<family, hits, malformed, pages>>

AssembleWeb ==
    Assemble("web_search", WebAcquisition, [i \in DOMAIN hits |-> WebItem(i)])

AssemblePapers ==
    Assemble("paper_search", PaperAcquisition, [i \in DOMAIN hits |-> PaperItem(i)])

AssembleDocs ==
    Assemble("docs_search", DropAcquisition, [i \in DOMAIN hits |-> DocsItem(i)])

AssembleKnowledge ==
    Assemble("research_knowledge_recall", DropAcquisition,
             [i \in DOMAIN hits |-> KnowledgeItem(i)])

ToolNext ==
    \/ \E f \in SourceFamily : SelectTool(f) \/ NoTool(f)
    \/ SearchRaises
    \/ SearchFindsNothing
    \/ SearchWeb
    \/ SearchPapers
    \/ SearchDocs
    \/ RecallKnowledge
    \/ FetchWebPages
    \/ FetchPaper
    \/ FetchDocsPage
    \/ FetchDocsRaises
    \/ FetchEnds
    \/ AssembleWeb
    \/ AssemblePapers
    \/ AssembleDocs
    \/ AssembleKnowledge

ToolTypeOK ==
    /\ family \in SourceFamily \cup {None}
    /\ toolStep \in ToolStep
    /\ hits \in Seq(Hit)
    /\ malformed \in BOOLEAN
    /\ DOMAIN pages \subseteq DOMAIN hits
    /\ \A i \in DOMAIN pages : pages[i] \in FetchStatus
    /\ items \in Seq(Item)
    /\ acquisition \in AcquisitionStatus \cup {None}
=============================================================================
