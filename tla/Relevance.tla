------------------------------- MODULE Relevance -------------------------------
(***************************************************************************)
(* Which requests rank_relevant_events answers (tools.py 68-100,           *)
(* attention.py 36-48 and 72-84).  An event description counts as the set  *)
(* of its lower-case words; the weights are left out.                      *)
(***************************************************************************)
EXTENDS Naturals, Sequences, FiniteSets

CONSTANTS
    Words,
    MaxEvents       \* bound on the length of the list

Heads == 2          \* n_heads of most_relevant_events

VARIABLES events, focus, outcome

vars == <<events, focus, outcome>>

Descriptions == UNION {[1 .. n -> SUBSET Words] : n \in 0 .. MaxEvents}

Init ==
    /\ events \in Descriptions
    /\ focus \in 0 .. MaxEvents
    /\ outcome = "none"

Vocabulary == UNION {events[i] : i \in DOMAIN events}

\* The width of an embedding: one coordinate per word, and two at least.
Dim == IF Cardinality(Vocabulary) > 2 THEN Cardinality(Vocabulary) ELSE 2

InRange == focus < Len(events)

\* MultiHeadAttention refuses a width that its heads do not divide evenly.
HeadsFit == Dim % Heads = 0

Rank ==
    /\ outcome = "none"
    /\ outcome' = IF events = <<>> THEN "ranked"
                  ELSE IF InRange /\ HeadsFit THEN "ranked" ELSE "error"
    /\ UNCHANGED <<events, focus>>

Next == Rank

Spec == Init /\ [][Next]_vars

(***************************************************************************)
(* "Given a short list of recent event descriptions, rank how relevant     *)
(* each one is to the event at focus_index" (tools.py 70-71): a list with  *)
(* an event at focus_index is ranked, whatever words it is made of.        *)
(***************************************************************************)
EveryListRanked == outcome # "none" /\ InRange => outcome = "ranked"

===============================================================================
