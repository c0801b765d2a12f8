----------------------------- MODULE MCGateway ------------------------------
(***************************************************************************)
(* Small instances of Gateway.                                             *)
(***************************************************************************)
EXTENDS Gateway, TLC

OneCent == [c \in Charges |-> 1]

\* Requests are interchangeable
Symmetry == Permutations(Requests)

Begun == {c \in Charges : world[c] # "none" \/ Busy({"ask"}, c)}

\* (bound) Beside one charge there is one thing more: a second charge, a
\* webhook, a payment at the desk or a provider that is switched off.
OneThingMore ==
  Cardinality(Begun) + Cardinality({e \in Events : sent[e] # None}) + desk
    + Cardinality(Providers \ active) <= 2

\* (bound) Two reconciliations at most went wrong and were not repeated, one if
\* there are two charges.
LittleTrouble ==
  Cardinality(Begun) + Cardinality(unpaid) + Cardinality(unlinked)
    + Cardinality(repeated) <= 3
=============================================================================
