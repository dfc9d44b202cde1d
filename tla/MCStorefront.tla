---------------------------- MODULE MCStorefront -----------------------------
\* Constants for model checking Storefront.  One product: nothing the requests
\* do reaches from one product to another.
EXTENDS Storefront, TLC

CONSTANTS sold_out, one_left, two_left, unreadable

MCPayload == 0 :> sold_out @@ 1 :> one_left @@ 2 :> two_left
MCTexts == {sold_out, one_left, two_left, unreadable, Partial}
MCIntOf == [text \in MCTexts |-> NotAnInt]
MCClientTexts == {unreadable, Partial}
MCSeedStock == [p \in Products |-> 1]
==============================================================================
