----------------------------- MODULE LatestView -----------------------------
(***************************************************************************)
(* What a screen that reloads itself promises its reader: whatever order    *)
(* the answers come in, it only ever moves on to the answer of the newest   *)
(* question, and shows the day that was wished for in that question.        *)
(***************************************************************************)
EXTENDS Naturals

CONSTANTS Days, Default, Nothing

VARIABLES asked,        \* how many questions have been asked
          shown,        \* the question whose answer is on the screen
          wish,         \* the day the reader wishes to see
          view          \* the day on the screen

viewVars == <<asked, shown, wish, view>>

ViewInit == asked = 0 /\ shown = 0 /\ wish = Default /\ view = Nothing

Ask(day) == /\ asked' = asked + 1
            /\ wish' = day
            /\ UNCHANGED <<shown, view>>

Show == /\ shown < asked
        /\ shown' = asked
        /\ view' = wish
        /\ UNCHANGED <<asked, wish>>

ViewNext == Show \/ \E day \in Days : Ask(day)

ViewSpec == ViewInit /\ [][ViewNext]_viewVars
=============================================================================
