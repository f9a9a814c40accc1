---------------------------- MODULE MCAckTracker ----------------------------
EXTENDS AckTracker

(* The first two calls share an id, the others have an id of their own.     *)
SomeShare == [c \in Calls |-> IF c = 2 THEN 1 ELSE c]
=============================================================================
