--------------------------- MODULE MCConversation ---------------------------
(***************************************************************************)
(* The row of a conversation, its turns, its public events and its message *)
(* jobs live in tables that these operations do not write together, except *)
(* for the turns, which write events of their own.  A behaviour of this    *)
(* instance is of one of the four: their product would show nothing more.  *)
(* The sets whose members are interchangeable share their two model        *)
(* values, which keeps the group of symmetries small.                      *)
(***************************************************************************)
EXTENDS ConversationStore, TurnQueue, MessageJobs, TLC

VARIABLE part

\* Beside the turns one of the two writers of events is enough.
OneWriter == Cardinality({w \in Writer : (expect[w] > 0 \/ notes[w] > 0)'}) <= 1

MCInit == CInit /\ TInit /\ JInit /\ part \in {"row", "turns", "events", "jobs"}

MCNext ==
    \/ part = "row" /\ CNext /\ UNCHANGED <<turnVars, jobVars, part>>
    \/ part = "turns" /\ TNext /\ OneWriter /\ UNCHANGED <<convVars, jobVars, part>>
    \/ part = "events" /\ ENext /\ UNCHANGED <<convVars, queueVars, jobVars, part>>
    \/ part = "jobs" /\ JNext /\ UNCHANGED <<convVars, turnVars, part>>

MCSpec == MCInit /\ [][MCNext]_<<convVars, turnVars, jobVars, part>>

Symmetry == Permutations(Input) \cup Permutations(Reader)
=============================================================================
