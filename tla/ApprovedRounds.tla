--------------------------- MODULE ApprovedRounds ---------------------------
(***************************************************************************)
(* What the correction loop promises.  It works in rounds: a proposal is   *)
(* asked about, granted, acted on once, and judged.  Nothing is done       *)
(* without a grant, a grant is good for one effect, effects are never      *)
(* repeated, and there are at most Limit + 1 of them before it closes.     *)
(***************************************************************************)
EXTENDS Naturals

CONSTANTS Effects, Limit

VARIABLES
    phase,    \* "closed" at first, and after an outcome
    effects,  \* all that was ever done
    rounds    \* effects since it was last opened

vars == <<phase, effects, rounds>>

Init == phase = "closed" /\ effects = {} /\ rounds = 0

Move(from, to) ==
    /\ phase \in from /\ phase' \in to
    /\ UNCHANGED <<effects, rounds>>

\* With a proposal to ask about, or still in need of one.
Open ==
    /\ phase = "closed" /\ phase' \in {"drafting", "asking", "closed"}
    /\ rounds' = 0
    /\ UNCHANGED effects

Ask == Move({"drafting"}, {"asking"})

Grant == Move({"asking"}, {"acting"})

Act ==
    /\ phase = "acting" /\ phase' \in {"judging", "closed"}
    /\ \E e \in Effects \ effects : effects' = effects \cup {e}
    /\ rounds <= Limit /\ rounds' = rounds + 1

\* Red: another round, or none any more.
Judge == Move({"judging"}, {"drafting", "closed"})

Decline == Move({"asking"}, {"drafting"})

Close == Move({"drafting", "asking", "acting", "broken"}, {"closed"})

\* An exception: only closing is left.
Break == Move({"acting", "judging"}, {"broken"})

Next ==
    Open \/ Ask \/ Grant \/ Act \/ Judge \/ Decline \/ Close \/ Break

Spec == Init /\ [][Next]_vars
=============================================================================
