---------------------------- MODULE EvidenceStage ----------------------------
(***************************************************************************)
(* What evidence processing promises.  Every material of the request is    *)
(* decided once, in any order, each by itself: it yields units, yields     *)
(* nothing, or fails.  Then the request is answered, and the answer        *)
(* depends on those decisions alone: no unit and none of its sources is    *)
(* lost, no source is cited for what it does not say a part of, and the    *)
(* status tells whether anything failed.                                   *)
(***************************************************************************)
EXTENDS Naturals, Sequences

CONSTANTS None

VARIABLES
    outcome,        \* of each material: what became of it, None until decided
    result          \* the answer, None until there is one

vars == <<outcome, result>>

Units == UNION {{outcome[i].units[j] : j \in DOMAIN outcome[i].units} :
                i \in DOMAIN outcome}

AnswerUnits(answer) == {answer.units[i] : i \in DOMAIN answer.units}

\* Every unit is covered by a unit of the answer that names all its sources.
KeepsUnits(answer) ==
    \A u \in Units : \E f \in AnswerUnits(answer) :
        /\ f.type = u.type
        /\ u.content \subseteq f.content
        /\ u.sources \subseteq f.sources

\* What a unit of the answer says was found so, and each of its sources says a
\* part of it.
IsGrounded(answer) ==
    \A f \in AnswerUnits(answer) :
        /\ \E u \in Units : u.content = f.content /\ u.type = f.type
        /\ \A s \in f.sources : \E u \in Units :
            s \in u.sources /\ u.type = f.type /\ u.content \subseteq f.content

Failed == \E i \in DOMAIN outcome : outcome[i].failed

StatusIsTruthful(answer) ==
    /\ (answer.units # <<>>) = (answer.status \in {"success", "partial_success"})
    /\ answer.status \in {"success", "no_result"} => ~Failed
    /\ answer.status = "failed" => Failed

Init ==
    /\ outcome = <<>>
    /\ result = None

\* The materials are known; some need no work.
Accept ==
    /\ outcome = <<>>
    /\ outcome' # <<>>
    /\ result = None
    /\ UNCHANGED result

Decide ==
    /\ \E i \in DOMAIN outcome :
        /\ outcome[i] = None
        /\ outcome'[i] # None
        /\ DOMAIN outcome' = DOMAIN outcome
        /\ \A j \in DOMAIN outcome \ {i} : outcome'[j] = outcome[j]
    /\ UNCHANGED result

Answer ==
    /\ result = None
    /\ \A i \in DOMAIN outcome : outcome[i] # None
    /\ result' # None
    /\ KeepsUnits(result')
    /\ IsGrounded(result')
    /\ StatusIsTruthful(result')
    /\ UNCHANGED outcome

Next == Accept \/ Decide \/ Answer

SafetySpec == Init /\ [][Next]_vars

\* Once accepted, a request is answered.
Spec == SafetySpec /\ (outcome # <<>> ~> result # None)
=============================================================================
