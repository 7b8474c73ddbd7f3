------------------------------- MODULE FormMC -------------------------------
EXTENDS Upload
MCBytes == [f \in File |-> IF f = "small" THEN 1 ELSE IF f = "full" THEN 2 ELSE 3]
=============================================================================
