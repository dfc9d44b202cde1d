---------------------------- MODULE MCPersistence ----------------------------
\* Constants for model checking Persistence: one key and one text are enough,
\* because a file is read and written as a whole and events act on one key or
\* on one namespace.
EXTENDS Persistence

CONSTANT word

MCTexts == {word}
MCIntOf == word :> NotAnInt
MCInputValues == {word}
MCTTLs == {1, Never}
MCAmounts == {1}
MCLimits == {}
==============================================================================
