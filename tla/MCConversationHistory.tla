----------------------- MODULE MCConversationHistory -----------------------
(***************************************************************************)
(* Two runs that may share a session, and a third that may also come from  *)
(* another project or user; questions of the same time, so that listings   *)
(* have ties.                                                              *)
(***************************************************************************)
EXTENDS ConversationHistory, TLC

CONSTANTS u1, u2, p1, p2

Asked(scopes, targets) ==
    {t \in [session: targets, scope: scopes, asked: {1, 2}, answered: {2, 3}] :
        t.asked < t.answered}

Own == [user |-> u1, project |-> p1]
OtherProject == [user |-> u1, project |-> p2]
OtherUser == [user |-> u2, project |-> p1]

MCTurns ==
    1 :> Asked({Own}, {1}) @@ 2 :> Asked({Own}, Session)
        @@ 3 :> Asked({Own, OtherProject, OtherUser}, Session)
=============================================================================
