------------------------ MODULE ExecutorAcquisition ------------------------
(***************************************************************************)
(* The Tool Execution Layer as Research Executor uses it: the requests     *)
(* ResearchMaterialAcquirer projects from an assessment.  The assessment   *)
(* names an action mode and a preferred family among the effective         *)
(* available families, recall for memory and any other for external.       *)
(***************************************************************************)
EXTENDS ToolExecutionLayer

\* _effective_available_families: recall needs the owner's identity.
EffectiveFamilies(available, owner) ==
    IF owner THEN available ELSE available \ {Recall}

\* _allowed_source_families: the action mode confines the families.
AllowedFamilies(mode, available) ==
    IF mode = "memory" THEN {Recall} ELSE available \ {Recall}

ProjectedRequest(mode, family, available, owner) ==
    [mode      |-> mode,
     available |-> available,
     allowed   |-> AllowedFamilies(mode, available),
     preferred |-> {family},
     blocked   |-> {},
     policy    |-> IF mode = "memory" THEN "within_same_family" ELSE "broader",
     budget    |-> 1,
     provided  |-> TRUE,
     owner     |-> owner]

\* Every assessment the validators accept.
Assessed(mode, family, available) ==
    /\ family \in available
    /\ mode = "memory" <=> family = Recall

ExecutorRequests ==
    {ProjectedRequest(a.mode, a.family, EffectiveFamilies(a.available, a.owner), a.owner) :
        a \in {x \in [mode: {"memory", "external"}, family: Family,
                      available: SUBSET Family, owner: BOOLEAN] :
                  Assessed(x.mode, x.family, EffectiveFamilies(x.available, x.owner))}}
=============================================================================
