------------------------- MODULE SessionContinuity -------------------------
(***************************************************************************)
(* Session Memory: one value per user and session in Redis, read by the    *)
(* context loader at the start of a run and rewritten whole at its end.    *)
(* SessionContinuityManagerService.update loads it, folds the run's turn   *)
(* into it and saves the result; load and save are separate calls, and the *)
(* value expires when nothing has been saved for its time to live.         *)
(*                                                                         *)
(* Of the fields those are kept whose update rule is not a plain overwrite:*)
(* the bounded window of turn summaries, the open questions a turn takes   *)
(* over from the turn before, and the recommendation that stays until a    *)
(* turn makes a new one.                                                   *)
(***************************************************************************)
EXTENDS Integers, Sequences

CONSTANTS
    Session,        \* user and session identifiers
    Summary,        \* turn summaries, normalised
    Question,       \* open questions, normalised
    MaxTurns,       \* _MAX_RECENT_TURN_SUMMARIES
    MaxQuestions,   \* _MAX_OPEN_QUESTIONS
    NoMemory        \* no value under the key, or no recommendation

UpTo(S, n) == UNION {[1..k -> S] : k \in 0..n}

SessionMemory ==
    [turns: UpTo(Summary, MaxTurns), questions: UpTo(Question, MaxQuestions),
     recommendation: Summary \cup {NoMemory}]

ASSUME BoundsAssumption == MaxTurns \in Nat \ {0} /\ MaxQuestions \in Nat
ASSUME NoMemoryAssumption == NoMemory \notin SessionMemory /\ NoMemory \notin Summary

VARIABLES
    sessions,       \* what Redis holds for every session
    turnLog         \* history: the turns saved to a session since it expired

sessionVars == <<sessions, turnLog>>

-----------------------------------------------------------------------------
(* The update rules.                                                        *)

Contains(seq, v) == \E i \in DOMAIN seq : seq[i] = v

\* Append a value that is not there yet.
AppendNew(seq, v) == IF Contains(seq, v) THEN seq ELSE Append(seq, v)

\* Deviation: the window is not bounded.
AllTurns(turns) == turns

\* Deviation: the first entries are kept instead of the last.
FirstTurns(turns) ==
    SubSeq(turns, 1, IF Len(turns) > MaxTurns THEN MaxTurns ELSE Len(turns))

LastTurns(turns) ==
    SubSeq(turns, IF Len(turns) > MaxTurns THEN Len(turns) - MaxTurns + 1 ELSE 1, Len(turns))

\* Deviation: the newest questions are kept when there are too many.
NewestQuestions(questions) ==
    SubSeq(questions,
           IF Len(questions) > MaxQuestions THEN Len(questions) - MaxQuestions + 1 ELSE 1,
           Len(questions))

\* The questions are cut from the end: old ones keep their place.
BoundedQuestions(questions) ==
    SubSeq(questions, 1, IF Len(questions) > MaxQuestions THEN MaxQuestions ELSE Len(questions))

EmptyMemory == [turns |-> <<>>, questions |-> <<>>, recommendation |-> NoMemory]

\* A load that found nothing starts from an empty memory.
Existing(memory) == IF memory = NoMemory THEN EmptyMemory ELSE memory

\* The memory after a turn.  A summary already in the window is not repeated
\* and keeps its place; a turn without recommendation keeps the last one; the
\* run's open questions replace the stored ones.
Updated(memory, turn) ==
    [turns |-> LastTurns(AppendNew(Existing(memory).turns, turn.summary)),
     questions |-> BoundedQuestions(turn.questions),
     recommendation |-> IF turn.recommendation = NoMemory
                          THEN Existing(memory).recommendation
                          ELSE turn.recommendation]

\* SET with a fresh time to live; a failure is only logged.  The history notes
\* whose turn it was and whether its summary was in the window already.
SaveSession(s, r, old, turn) ==
    /\ sessions' = [sessions EXCEPT ![s] = Updated(old, turn)]
    /\ turnLog' = [turnLog EXCEPT ![s] =
            Append(@, [request |-> r, summary |-> turn.summary,
                       repeats |-> Contains(Existing(old).turns, turn.summary)])]

\* The time to live ran out.
ExpireSession(s) ==
    /\ sessions[s] # NoMemory
    /\ sessions' = [sessions EXCEPT ![s] = NoMemory]
    /\ turnLog' = [turnLog EXCEPT ![s] = <<>>]

SessionInit ==
    /\ sessions = [s \in Session |-> NoMemory]
    /\ turnLog = [s \in Session |-> <<>>]

-----------------------------------------------------------------------------
(* Properties.                                                              *)

SessionTypeOK == sessions \in [Session -> SessionMemory \cup {NoMemory}]

\* The last saved turn is always in the session's window.
LastTurnIsKept ==
    \A s \in Session : turnLog[s] # <<>> =>
        Contains(sessions[s].turns, turnLog[s][Len(turnLog[s])].summary)

\* So is the turn before it, unless it repeated a summary that was in the window
\* and so kept that one's place.  It holds of runs that do not overlap.
TurnBeforeIsKept ==
    \A s \in Session : Len(turnLog[s]) > 1 =>
        LET before == turnLog[s][Len(turnLog[s]) - 1] IN
        before.repeats \/ Contains(sessions[s].turns, before.summary)
=============================================================================
