--------------------------- MODULE MCProfileMemory ---------------------------
(***************************************************************************)
(* Three runs of one project, which is what a deadlock takes, with and     *)
(* without a stored profile, either one after another (serial) or          *)
(* overlapping.                                                            *)
(***************************************************************************)
EXTENDS ProfileMemory

VARIABLE serial     \* the candidates of the runs do not overlap

Alone(r) == serial => \A s \in Run \ {r} : phase[s] = "lookup"

MCProgress(r) == Progress(r) /\ Alone(r) /\ UNCHANGED serial

MCInit == Init /\ serial \in BOOLEAN

MCNext ==
    \E r \in Run :
        \/ MCProgress(r)
        \/ CandidateFails(r) /\ Alone(r) /\ UNCHANGED serial
        \/ AbortDeadlock(r) /\ UNCHANGED serial

MCSpec ==
    /\ MCInit /\ [][MCNext]_<<vars, serial>>
    /\ \A r \in Run : WF_<<vars, serial>>(MCProgress(r))
    /\ WF_<<vars, serial>>(\E r \in Run : AbortDeadlock(r) /\ UNCHANGED serial)

\* Runs that do not overlap patch the profile they replace (persist reads it
\* after the run before has committed).
SerialRunsPatchCurrent == serial => PatchedFromCurrent
=============================================================================
