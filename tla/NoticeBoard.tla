---------------------------- MODULE NoticeBoard -----------------------------
(***************************************************************************)
(* What a binding promises the readers of its channel                      *)
(* (internal/edinbot/publisher/publisher.go:30-51): a board of notices     *)
(* about the subjects of the current edition.  The board is cleared, then  *)
(* filled again; while it fills, it holds one notice at most about each    *)
(* subject, and nothing of an earlier edition.  A notice the keeper has    *)
(* lost track of is astray, and never comes back to the board.             *)
(***************************************************************************)
CONSTANTS Notice,    \* records with a field of, the subject
          Subject

VARIABLES edition,   \* subjects to be announced
          open,      \* the board is being filled
          up,        \* notices on the board
          astray     \* notices on show that the keeper has lost track of

vars == <<edition, open, up, astray>>

Init == edition = {} /\ ~open /\ up = {} /\ astray = {}

\* A new edition arrives while the board is not being filled.
Publish ==
    /\ ~open /\ UNCHANGED <<open, up, astray>>
    /\ edition' \in SUBSET Subject

\* Filling starts with an empty board: what was on it has been taken down, or
\* is astray from now on.
Open ==
    /\ ~open /\ open'
    /\ up' = {} /\ astray' = astray \cup up /\ UNCHANGED edition

Unseen == Notice \ (up \cup astray)

Pin == \E n \in Unseen :
    /\ open /\ n.of \in edition /\ \A m \in up : m.of # n.of
    /\ up' = up \cup {n} /\ UNCHANGED <<edition, open, astray>>

\* The keeper never learns that the notice is up.
PinAstray == \E n \in Unseen :
    /\ open /\ n.of \in edition
    /\ astray' = astray \cup {n} /\ UNCHANGED <<edition, open, up>>

\* Taken down by the keeper or by a reader.
TakeDown == \E n \in up \cup astray :
    /\ up' = up \ {n} /\ astray' = astray \ {n}
    /\ (UNCHANGED open \/ ~open') /\ UNCHANGED edition

\* The keeper loses track of some notices, stops filling, or both.
Lose == \E lost \in SUBSET up :
    /\ up' = up \ lost /\ astray' = astray \cup lost
    /\ (UNCHANGED open \/ ~open') /\ UNCHANGED edition

Next == Publish \/ Open \/ Pin \/ PinAstray \/ TakeDown \/ Lose

Spec == Init /\ [][Next]_vars
=============================================================================
