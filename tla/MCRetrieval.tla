---------------------------- MODULE MCRetrieval ----------------------------
(***************************************************************************)
(* Retrieval, in one of three scenarios: one call of a source family whose *)
(* items become evidence, searches of several requests that share the      *)
(* arXiv client, and stores that share the registry of connection pools.   *)
(***************************************************************************)
EXTENDS EvidenceProcessing, ArxivSearchClient, PoolRegistry

CONSTANTS
    d1, d2, d3, finding, method, limit,
    c1, c2, c3, s1, s2, s3, s4, db1, db2, padded, blanks

VARIABLES scenario      \* "evidence", "clients" or "pools"

mcvars == <<toolVars, evidenceVars, clientVars, registryVars, scenario>>

\* d2 says a part of d1, and d3 restricts what d2 says; d1 is long.
MCFullText ==
    (d1 :> {finding, method, limit}) @@ (d2 :> {finding}) @@ (d3 :> {finding, limit})

HitOf(doc, snippet, preferred) ==
    [doc |-> doc, snippet |-> snippet, preferred |-> preferred, sources |-> <<doc>>]

UnitHit(doc, sources) ==
    [doc |-> doc, snippet |-> FullText[doc], preferred |-> TRUE, sources |-> sources]

\* Web pages may be found twice, papers may lack an abstract, an entry of a manifest
\* may come back beyond the pages that are fetched, and units of knowledge may share
\* a source.
MCOffered ==
    [web_search |->
        {<<>>, <<HitOf(d2, {finding}, FALSE), HitOf(d1, {method}, TRUE),
                 HitOf(d2, {finding}, FALSE)>>,
         <<HitOf(d1, {finding}, TRUE), HitOf(d3, {limit}, TRUE)>>},
     paper_search |->
        {<<>>, <<HitOf(d1, {}, TRUE), HitOf(d2, {finding}, TRUE),
                 HitOf(d3, {finding}, TRUE)>>},
     docs_search |->
        {<<>>, <<HitOf(d3, {limit}, TRUE), HitOf(d1, {finding}, TRUE),
                 HitOf(d1, {method}, TRUE), HitOf(d2, {finding}, TRUE)>>},
     research_knowledge_recall |->
        {<<>>, <<UnitHit(d1, <<d1, d2>>), UnitHit(d2, <<d1, d3>>),
                 UnitHit(d3, <<d3>>)>>}]

\* One of the databases is also configured with blanks around its DSN.
MCStripped == (db1 :> db1) @@ (padded :> db1) @@ (db2 :> db2) @@ (blanks :> Blank)

MCInit ==
    /\ ToolInit
    /\ EvidenceInit
    /\ ClientInit
    /\ RegistryInit
    /\ scenario \in {"evidence", "clients", "pools"}

RetrievalStep ==
    /\ scenario = "evidence"
    /\ \/ ToolNext /\ UNCHANGED evidenceVars
       \/ EvidenceNext /\ UNCHANGED toolVars
    /\ UNCHANGED <<clientVars, registryVars, scenario>>

ClientsStep ==
    /\ scenario = "clients"
    /\ ClientNext
    /\ UNCHANGED <<toolVars, evidenceVars, registryVars, scenario>>

PoolsStep ==
    /\ scenario = "pools"
    /\ RegistryNext
    /\ UNCHANGED <<toolVars, evidenceVars, clientVars, scenario>>

MCNext == RetrievalStep \/ ClientsStep \/ PoolsStep

\* Tools, providers and model calls answer or time out.
MCSpec == MCInit /\ [][MCNext]_mcvars /\ WF_mcvars(RetrievalStep)

\* Every variable has its type.
RetrievalTypeOK == ToolTypeOK /\ EvidenceTypeOK /\ ClientTypeOK /\ RegistryTypeOK
=============================================================================
