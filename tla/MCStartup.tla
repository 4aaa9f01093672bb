------------------------------- MODULE MCStartup -------------------------------
(* Small instances of Startup for TLC. *)
EXTENDS Startup, TLC

CONSTANTS t1, t2

\* Two catalogues that share a text; one lists a text twice.
SharedTexts == {<<t2>>, <<t1, t2, t1>>}

SameWidth == [m \in Models |-> 4]

\* Vectors are only promised to be kept apart until a configuration returns.
Promised == ~returned
===============================================================================
