--------------------------- MODULE MCActionMemory ---------------------------
(***************************************************************************)
(* Two runs of one project, either one candidate after another (serial) or *)
(* overlapping.  The serial runs hand in two titles whose fields agree     *)
(* with the stored rows; the overlapping ones share a title and may also   *)
(* differ in the fields.  In a third scenario a caller browses a project's *)
(* memory while two runs write a row each; counts of empty collections are *)
(* left out.                                                               *)
(***************************************************************************)
EXTENDS ActionMemory, MemoryBrowsing, TLC

CONSTANTS x, y

VARIABLE scenario   \* "serial", "overlapping" or "browsing"

mcvars == <<vars, browsingVars, scenario>>

serial == scenario = "serial"

MCRow(collection, owner, updated) ==
    [collection |-> collection, owner |-> owner, state |-> "todo", active |-> TRUE,
     updated |-> updated]

FinalAction(updated) == [MCRow("actions", "project", updated) EXCEPT !.state = "done"]

Retired(row) == [row EXCEPT !.active = FALSE]

\* Three rows of a collection to list, two of them of one time, among rows that
\* are not shown.
MCFirstRows ==
    {<<MCRow("actions", "project", 1), MCRow("actions", "project", 2),
       MCRow("actions", "project", 2), MCRow("actions", "other_project", 2),
       FinalAction(1)>>,
     <<MCRow("decisions", "project", 2), MCRow("decisions", "project", 1),
       MCRow("decisions", "project", 2), Retired(MCRow("decisions", "project", 2)),
       MCRow("decisions", "other_project", 1)>>,
     <<MCRow("policies", "project", 2), MCRow("policies", "user", 1),
       MCRow("policies", "global", 2), MCRow("policies", "other_user", 2),
       MCRow("policies", "other_project", 2)>>}

Offered(c) == IF serial THEN ~c.patch ELSE c.title = x

Alone(r) == \A s \in Run \ {r} : phase[s] = "lookup"

MCInit ==
    /\ Init
    /\ scenario \in {"serial", "overlapping", "browsing"}
    /\ MemoryBrowsingInit
    /\ scenario # "browsing" => rows = CHOOSE first \in FirstRows : TRUE

RunStep ==
    /\ scenario # "browsing"
    /\ \E r \in Run :
        /\ Step(r)
        /\ serial => Alone(r)
        /\ candidate'[r] # None => Offered(candidate'[r])
    /\ UNCHANGED <<browsingVars, scenario>>

BrowsingStep ==
    /\ scenario = "browsing"
    /\ BrowseNext
    /\ DOMAIN counted' \subseteq {rows[i].collection : i \in DOMAIN rows}
    /\ UNCHANGED <<vars, scenario>>

MCNext == RunStep \/ BrowsingStep

MCSpec == MCInit /\ [][MCNext]_mcvars

\* Runs that do not overlap never reopen an action nor send it back to todo
\* (persist, is_legal_action_status_transition).
SerialRunsMoveForward == [][serial => MovesForward]_mcvars

\* Runs that do not overlap store an action once (_resolve_action's title rule).
SerialRunsStoreOnce == serial => OneActiveRowPerTitle

IdSymmetry == Permutations(ActionId)
=============================================================================
