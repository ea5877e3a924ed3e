------------------------- MODULE EvidenceProcessing -------------------------
(***************************************************************************)
(* EvidenceProcessingService.process: the items of a retrieval become      *)
(* evidence units.  Duplicate materials are removed, the others structured *)
(* concurrently, at most Slots at a time, either as they are or by a model *)
(* whose call is retried on transient failures, and the units consolidated *)
(* in the order of their materials.                                        *)
(***************************************************************************)
EXTENDS SourceFamilies

CONSTANTS
    EvidenceType,   \* the types a unit may have
    Blocker,        \* statements that limit or contrast what a text says
    MaxAdded,       \* how much longer a unit may be than one merged into it
    MaxLength,      \* longer texts are cut to a selection of this length
    MaxUnits,       \* units the model may make of one material
    Slots,          \* max_external_concurrency
    MaxRetries      \* of a model call

ASSUME EvidenceAssumption ==
    /\ "supporting_signal" \in EvidenceType
    /\ Blocker \subseteq Statement
    /\ MaxAdded \in Nat /\ MaxLength \in Nat \ {0} /\ MaxUnits \in Nat \ {0}
    /\ Slots \in Nat \ {0} /\ MaxRetries \in Nat

VARIABLES
    extraction,     \* whether the model extracts evidence (a setting)
    materials,      \* the materials left after deduplication
    work,           \* of each material: its coroutine
    result          \* the answer, or None

evidenceVars == <<extraction, materials, work, result>>

Unit == [content: Text, type: EvidenceType, sources: SUBSET Doc]

WorkStep == {"waiting", "selecting", "calling", "done"}
Work == [step: WorkStep, selected: Text, attempt: 0..(MaxRetries + 1),
         units: Seq(Unit), failed: BOOLEAN]

ProcessingStatus == {"success", "partial_success", "no_result", "failed"}
Result == [status: ProcessingStatus, units: Seq(Unit)]

\* What a coroutine returns: its units, or that it failed.
Decision == [units: Seq(Unit), failed: BOOLEAN]

ASSUME NoneAssumption == None \notin Result /\ None \notin Decision

Smallest(indexes) == CHOOSE i \in indexes : \A j \in indexes : i <= j

EvidenceInit ==
    /\ extraction \in BOOLEAN
    /\ materials = <<>>
    /\ work = <<>>
    /\ result = None

-----------------------------------------------------------------------------
(* Deduplication of materials.                                              *)

SourceRef(m) == Head(m.sources)

SameIdentityOrExactDuplicate(a, b) ==
    \/ a.doc = b.doc
    \/ SourceRef(a) = SourceRef(b) /\ a.content = b.content

SameSourceContainment(a, b) ==
    /\ SourceRef(a) = SourceRef(b)
    /\ a.content # {} /\ b.content # {}
    /\ a.content \subseteq b.content \/ b.content \subseteq a.content

IsDuplicate(a, b) == SameIdentityOrExactDuplicate(a, b) \/ SameSourceContainment(a, b)

\* Texts are normalized here.  The code compares raw lengths, so a text may also be
\* longer by its blanks, which say nothing.
Longer(a, b) == Cardinality(a.content) > Cardinality(b.content)

\* m takes the place of the first material it duplicates if it is longer, and is
\* dropped otherwise: equally long ones come with the same metadata.
AddMaterial(kept, m) ==
    LET same == {i \in DOMAIN kept : IsDuplicate(kept[i], m)} IN
    IF same = {} THEN Append(kept, m)
    ELSE IF Longer(m, kept[Smallest(same)]) THEN [kept EXCEPT ![Smallest(same)] = m]
    ELSE kept

DedupMaterials(offered) == FoldLeft(AddMaterial, <<>>, offered)

-----------------------------------------------------------------------------
(* Consolidation of evidence units.                                         *)

\* The longer text says all the shorter says and little more, none of it a
\* restriction.
ConservativeContainment(a, b) ==
    LET shorter == IF Cardinality(a) <= Cardinality(b) THEN a ELSE b
        longer == IF Cardinality(a) <= Cardinality(b) THEN b ELSE a
        added == longer \ shorter
    IN /\ shorter # {}
       /\ shorter \subseteq longer
       /\ Cardinality(added) <= MaxAdded
       /\ added \cap Blocker = {}

SameEvidence(u, v) ==
    /\ u.type = v.type
    /\ u.content = v.content \/ ConservativeContainment(u.content, v.content)

\* The longer text stands for both, with the sources of both.
MergeUnits(u, v) ==
    [(IF Longer(v, u) THEN v ELSE u) EXCEPT !.sources = u.sources \cup v.sources]

AddUnit(kept, u) ==
    LET same == {i \in DOMAIN kept : SameEvidence(kept[i], u)} IN
    IF same = {} THEN Append(kept, u)
    ELSE [kept EXCEPT ![Smallest(same)] = MergeUnits(@, u)]

Consolidated(units) == FoldLeft(AddUnit, <<>>, units)

-----------------------------------------------------------------------------
(* The request.                                                             *)

ShortCircuit ==
    /\ result = None
    /\ toolStep = "returned"
    /\ acquisition \in {"no_result", "failed"} \/ items = <<>>
    /\ result' = [status |-> "no_result", units |-> <<>>]
    /\ UNCHANGED <<extraction, materials, work>>

UnitOf(m, content, type) ==
    [content |-> content, type |-> type, sources |-> ToSet(m.sources)]

\* The coroutine has returned its units, or none because of a failure.
Done(units, failed) ==
    [step |-> "done", selected |-> {}, attempt |-> 0, units |-> units, failed |-> failed]

Waiting == [Done(<<>>, FALSE) EXCEPT !.step = "waiting"]

\* What structuring starts with: a material without text is dropped, recalled
\* knowledge passed through, and for others a slot is waited for.
StartedWork(m) ==
    CASE m.content = {} -> Done(<<>>, FALSE)
      [] m.content # {} /\ m.family = "research_knowledge_recall" ->
            Done(<<UnitOf(m, m.content, "supporting_signal")>>, FALSE)
      [] OTHER -> Waiting

StartStructuring ==
    /\ materials = <<>>
    /\ toolStep = "returned"
    /\ acquisition \notin {"no_result", "failed"}
    /\ items # <<>>
    /\ materials' = DedupMaterials(items)
    /\ work' = [i \in DOMAIN materials' |-> StartedWork(materials'[i])]
    /\ UNCHANGED <<extraction, result>>

-----------------------------------------------------------------------------
(* One material.                                                            *)

\* Deviation: a material that fails keeps its slot.
HoldingUntilSuccess ==
    {i \in DOMAIN work : work[i].step \in {"selecting", "calling"} \/ work[i].failed}

HoldingSlot == {i \in DOMAIN work : work[i].step \in {"selecting", "calling"}}

TakeSlot(i) ==
    /\ work[i].step = "waiting"
    /\ Cardinality(HoldingSlot) < Slots
    /\ work' = [work EXCEPT ![i].step = "selecting"]

\* Short texts are taken whole, of long ones the parts that fit the question,
\* by embeddings or, when those fail, by words.
SelectedContents(text) ==
    IF Cardinality(text) <= MaxLength THEN {text}
    ELSE {part \in SUBSET text : Cardinality(part) = MaxLength}

PassThrough(i) ==
    /\ work[i].step = "selecting"
    /\ ~extraction
    /\ \E content \in SelectedContents(materials[i].content) :
        work' = [work EXCEPT ![i] =
                    Done(<<UnitOf(materials[i], content, "supporting_signal")>>, FALSE)]

CallModel(i) ==
    /\ work[i].step = "selecting"
    /\ extraction
    /\ \E content \in SelectedContents(materials[i].content) :
        work' = [work EXCEPT ![i].step = "calling", ![i].selected = content,
                             ![i].attempt = 1]

ModelUnit(m, selected) ==
    {UnitOf(m, content, type) :
        content \in (SUBSET selected) \ {{}}, type \in EvidenceType}

\* The model drops the material, or keeps some units of it.
ModelUnits(m, selected) ==
    {<<>>} \cup UNION {[1..n -> ModelUnit(m, selected)] : n \in 1..MaxUnits}

ModelAnswers(i) ==
    /\ work[i].step = "calling"
    /\ \E units \in ModelUnits(materials[i], work[i].selected) :
        work' = [work EXCEPT ![i] = Done(units, FALSE)]

\* Deviation: one attempt too many.
MayRetryOnceMore(i) == work[i].attempt <= MaxRetries + 1

MayRetry(i) == work[i].attempt <= MaxRetries

\* A timeout, a network failure, a rate limit or a server error is tried again
\* after a pause, in the same slot.
RetryCall(i) ==
    /\ work[i].step = "calling"
    /\ MayRetry(i)
    /\ work' = [work EXCEPT ![i].attempt = @ + 1]

\* Any other error, the last transient one, and an answer that does not match the
\* schema fail the material.
ModelCallFails(i) ==
    /\ work[i].step = "calling"
    /\ work' = [work EXCEPT ![i] = Done(<<>>, TRUE)]

StructureMaterial(i) ==
    /\ \/ TakeSlot(i)
       \/ PassThrough(i)
       \/ CallModel(i)
       \/ ModelAnswers(i)
       \/ RetryCall(i)
       \/ ModelCallFails(i)
    /\ UNCHANGED <<extraction, materials, result>>

-----------------------------------------------------------------------------
(* The answer.                                                              *)

StructuredUnits ==
    FoldLeft(LAMBDA units, w : units \o w.units, <<>>, work)

ProcessingStatusOf(output, failures, dropped, input) ==
    IF output = 0 THEN IF failures > 0 THEN "failed" ELSE "no_result"
    ELSE IF failures > 0 \/ dropped > (IF input > output THEN input - output ELSE 0)
    THEN "partial_success" ELSE "success"

FinishProcessing ==
    /\ result = None
    /\ materials # <<>>
    /\ \A i \in DOMAIN work : work[i].step = "done"
    /\ LET units == Consolidated(StructuredUnits) IN
       result' = [units |-> units,
                  status |-> ProcessingStatusOf(
                    Len(units),
                    Cardinality({i \in DOMAIN work : work[i].failed}),
                    Cardinality({i \in DOMAIN work : work[i].units = <<>>}),
                    Len(items))]
    /\ UNCHANGED <<extraction, materials, work>>

EvidenceNext ==
    \/ ShortCircuit
    \/ StartStructuring
    \/ \E i \in DOMAIN work : StructureMaterial(i)
    \/ FinishProcessing

EvidenceTypeOK ==
    /\ extraction \in BOOLEAN
    /\ materials \in Seq(Item)
    /\ work \in Seq(Work) /\ DOMAIN work = DOMAIN materials
    /\ result \in Result \cup {None}

-----------------------------------------------------------------------------
(* Properties.                                                              *)

\* What evidence processing promises (module EvidenceStage): an outcome is what a
\* material's coroutine returned.
Decisions ==
    [i \in DOMAIN work |->
        IF work[i].step = "done" THEN [units |-> work[i].units, failed |-> work[i].failed]
                                 ELSE None]

Promise == INSTANCE EvidenceStage WITH outcome <- Decisions

\* Concurrent processing with slots, retries and failures answers every request
\* as promised.
ImplementsEvidenceStage == Promise!Spec

\* Whatever happens between the search and the answer - a fetch that fails, a
\* duplicate that is removed, a merge - a source that was found with some text is
\* named by the evidence of a successful answer, unless the model dropped it.
FoundSourcesReachTheEvidence ==
    result # None /\ result.status = "success" =>
        \A i \in DOMAIN hits : hits[i].snippet # {} =>
            LET source == Head(hits[i].sources) IN
            \/ \E j \in DOMAIN result.units : source \in result.units[j].sources
            \/ \E j \in DOMAIN work : /\ extraction
                                      /\ SourceRef(materials[j]) = source
                                      /\ work[j].units = <<>>
=============================================================================
