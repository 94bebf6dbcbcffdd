------------------------ MODULE MCByzantineGenerals -------------------------
(* Four generals, of which one may be a traitor.                             *)
EXTENDS ByzantineGenerals, TLC

CONSTANTS commander, l1, l2, l3

FourGenerals == {commander, l1, l2, l3}

\* The simulations in which loyal generals agree: with a loyal commander, or
\* with an order that a tie of the votes happens to favour.
Agreeing == {[order |-> "ATTACK",  commanderTraitor |-> FALSE],
             [order |-> "RETREAT", commanderTraitor |-> FALSE],
             [order |-> "RETREAT", commanderTraitor |-> TRUE]}
BetrayedAttack == {[order |-> "ATTACK", commanderTraitor |-> TRUE]}

\* The lieutenants differ in nothing but the draw of the traitors.
AnyLieutenant == Permutations({l1, l2, l3})
=============================================================================
