------------------------------- MODULE RateCard -------------------------------
(***************************************************************************)
(* What the committed rate card promises its readers, whoever rewrites it    *)
(* and however many do so at once: every rate of a dated block was quoted,   *)
(* by the vendor or by the person who dated the block, on that day or after. *)
(***************************************************************************)
EXTENDS Integers

CONSTANTS
  Clouds, Cells,
  CloudOf,       \* the block a cell is in
  Undated        \* the as_of of a block without one

VARIABLES
  rates, asOf,   \* the card
  quotes         \* <<cell, price, day>> ever quoted

vars == <<rates, asOf, quotes>>

Honest(card, dates, quoted) ==
  \A m \in Cells : dates[CloudOf[m]] # Undated =>
    \E d \in {q[3] : q \in quoted} :
      d >= dates[CloudOf[m]] /\ <<m, card[m], d>> \in quoted

Init == Honest(rates, asOf, quotes)

\* The card or the quotes change; a quote is never taken back.
Next == quotes \subseteq quotes' /\ Honest(rates', asOf', quotes')

Spec == Init /\ [][Next]_vars
=============================================================================
