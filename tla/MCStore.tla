------------------------------- MODULE MCStore -------------------------------
(* Small instances of Store: the values are given in the .cfg files.        *)
EXTENDS Store

\* A long text and a short one.
LongAndShort == [v \in Version |-> IF v = "long" THEN 2 ELSE 1]
=============================================================================
