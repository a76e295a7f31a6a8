--------------------------- MODULE MCFunctionCalls ---------------------------
\* Two calls of one LLM response, with a deadline on the one that the user's
\* interruption does not cancel; or these and a call of a later response.
EXTENDS FunctionCalls

CONSTANTS lookup, order, confirm

OneBatch   == [c \in Calls |-> 1]
TwoBatches == [c \in Calls |-> IF c = confirm THEN 2 ELSE 1]
Grouped    == [parallel : BOOLEAN, grouped : {TRUE}]
==============================================================================
