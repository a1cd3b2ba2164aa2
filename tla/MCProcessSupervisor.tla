------------------------ MODULE MCProcessSupervisor ------------------------
EXTENDS ProcessSupervisor
CONSTANTS leader, tool
DescendantOne == {tool}

\* A stream of which one byte is kept, and one of which none is.
Limits == [s \in Stream |-> IF s = "stdout" THEN 1 ELSE 0]
=============================================================================
