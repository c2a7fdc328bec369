------------------------------ MODULE MCStage ------------------------------
(***************************************************************************)
(* Instances of Stage for TLC: values for its constants, and the players   *)
(* that can be exchanged in each.                                          *)
(***************************************************************************)
EXTENDS Stage, TLC

CONSTANTS a, b, c,   \* players
          s, t       \* stages

Ordinary == Permutations({b, c})      \* when a is an admin
Alike == Permutations({a, b}) \cup Permutations({s, t})

\* Bounds.  A game is on in one stage at a time.
OneGame == \E x \in Stages : \A y \in Stages \ {x} : stg[y].state \notin {"COUNTDOWN", "RUN"}

\* For what admins do to stages nobody plays or gets ready (to leave a stage
\* resets whatever a game sets, and members, counts and limits do not depend on
\* it), nobody is banned, and only an admin's client lags behind by more than one
\* notice.  An admin who enters a stage that lists him is counted once more each
\* time, and twice shows what twice does.
AdminsRoam ==
  /\ \A x \in Stages : /\ stg[x].state \in {"NONE", "STANDBY", "CLOSE"}
                        /\ stg[x].admins <= 2 * Cardinality(Admins)
                        /\ stg[x].banned = {}
  /\ \A p \in Players : ~ obj[p].ready
  /\ \A p \in Players \ Admins : Len(inbox[p]) <= 1
=============================================================================
