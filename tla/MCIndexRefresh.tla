--------------------------- MODULE MCIndexRefresh ---------------------------
\* Two files, one of them in a directory.  Even versions refer to the other file,
\* odd ones to nothing.
EXTENDS IndexRefresh

CONSTANTS a, b, d

AboveDef == [f \in {a, b} |-> IF f = a THEN {d} ELSE {}]
CitesDef == [c \in Versions |-> IF c % 2 = 0 THEN {a, b} ELSE {}]
=============================================================================
