--------------------------- MODULE MCWorkbenchJob ---------------------------
\* A small instance of WorkbenchJob: two units with one body.
EXTENDS WorkbenchJob, TLC

CONSTANTS s1, t1, t2, x1, body

TwoUnits == <<t1, t2>>
OneBody == (t1 :> body) @@ (t2 :> body)

=============================================================================
