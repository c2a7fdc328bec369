------------------------------- MODULE MCVote -------------------------------
(***************************************************************************)
(* Instances of Vote for TLC.                                              *)
(***************************************************************************)
EXTENDS Vote

CONSTANTS a, b, c    \* players

Named == [kind |-> "kick", exact |-> TRUE]
Misspelt == [kind |-> "kick", exact |-> FALSE]   \* the name, in another case
Joke == [kind |-> "joke", exact |-> FALSE]
NamedOnly == {Named}
AllTexts == {Named, Misspelt, Joke}

\* Nobody is asked for ever about a vote: the two who are no admins can be
\* exchanged, and an admin's presence keeps every vote from being called.
AskingEnds == AskingPasses(a)
=============================================================================
