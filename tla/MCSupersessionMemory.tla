------------------------ MODULE MCSupersessionMemory ------------------------
(***************************************************************************)
(* Two runs of a project and one of the user's own scope, either one       *)
(* candidate after another (serial) or overlapping; a rule of the system   *)
(* and one of the project are stored before they start.                    *)
(***************************************************************************)
EXTENDS SupersessionMemory, TLC

CONSTANTS project, user, system, r1, r2, r3, s1, s2

Scopes == (r1 :> project @@ r2 :> project @@ r3 :> user)
Stored == (s1 :> system @@ s2 :> project)

VARIABLE serial     \* the candidates of the runs do not overlap

Alone(r) == \A s \in Run \ {r} : phase[s] = "lookup"

MCInit == Init /\ serial \in BOOLEAN

MCNext ==
    /\ UNCHANGED serial
    /\ \E r \in Run : Step(r) /\ (serial => Alone(r))

MCSpec == MCInit /\ [][MCNext]_<<vars, serial>>

\* Runs that do not overlap leave versions in lines whose links agree (persist
\* reads the active rows after the run before has written).
SerialVersionsAreLinear == serial => VersionsAreLinear

Symmetry == Permutations(RecordId \ {s1, s2})
=============================================================================
