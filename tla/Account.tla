----------------------------- MODULE Account -----------------------------
(***************************************************************************)
(* What every simulated account of this program promises: it holds a      *)
(* number of units, and each step it may change them once at one price, or *)
(* go flat at one price and open again at another, paying a fee for each   *)
(* unit changed.  A deal is made at a price the market passed in the step. *)
(* Its equity then is what a ledger that pays for what it buys would hold, *)
(* marked to the new price; nothing else moves it.                         *)
(***************************************************************************)
EXTENDS Integers

CONSTANTS Fee,        \* fee for a unit bought or sold
          Scale,      \* price and equity are kept in 1/Scale of a tick
          Slack       \* how far from the marks of a step a deal can be, in ticks

VARIABLES units, price, equity

vars == <<units, price, equity>>

Abs(x) == IF x < 0 THEN -x ELSE x

Passed == LET lo == IF price < price' THEN price ELSE price'
              hi == IF price < price' THEN price' ELSE price
          IN ((lo \div Scale) - Slack)..((hi \div Scale) + Slack)

Init == units = 0

\* One deal at q from the units held to the units wanted, none included.
Deal(q) == equity' = equity + Scale * ((units - units') * q - Fee * Abs(units' - units))
                            + units' * price' - units * price

\* Flat at p, then a new position at q.
TurnOver(p, q) ==
  equity' = equity + Scale * (units * p - units' * q - Fee * (Abs(units) + Abs(units')))
                   + units' * price' - units * price

Next == \/ \E q \in Passed : Deal(q)
        \/ \E p, q \in Passed : TurnOver(p, q)

Spec == Init /\ [][Next]_vars
=============================================================================
