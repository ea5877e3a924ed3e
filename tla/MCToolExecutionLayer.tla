------------------------ MODULE MCToolExecutionLayer ------------------------
(***************************************************************************)
(* Requests through the public interface of the Tool Execution Layer: a    *)
(* sample of every combination of mode, filters, policy and budget, with   *)
(* a layer in which one family has no service.                             *)
(***************************************************************************)
EXTENDS ToolExecutionLayer

CONSTANTS recall, docs, web, paper

MCFamily == {recall, docs, web, paper}
MCRegistered == {recall, docs, web}
MCMultiTool == {docs}

MCRequest ==
    [mode: Mode,
     available: {{}, {docs, web}, {recall, paper}, {paper}},
     allowed: {{}, {docs, paper}},
     preferred: {{}, {web}},
     blocked: {{}, {recall}},
     policy: Policy,
     budget: {0, 2},
     provided: BOOLEAN,
     owner: BOOLEAN]
=============================================================================
