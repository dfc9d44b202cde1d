---------------------------- MODULE MCStoreEngine ----------------------------
\* Constants for model checking StoreEngine.  Two namespaces show that an
\* invalidation touches its own only, two keys that a write to one brings the
\* log up to date about the other after an invalidation it missed.
EXTENDS StoreEngine, TLC

CONSTANTS padded, word

MCTexts == {padded, word}

\* int("07") is 7, int("word") raises ValueError
MCIntOf == padded :> 7 @@ word :> NotAnInt

MCInputValues == {padded, word}
MCTTLs == {1, Never}
MCAmounts == {1}
MCLimits == {0, 1, Never}

\* Nothing tells one namespace, or one key, from another.
Symmetry == Permutations(Namespaces) \cup Permutations(Keys)
==============================================================================
