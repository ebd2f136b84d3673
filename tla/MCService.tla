----------------------------- MODULE MCService -----------------------------
(* Clients that create, close, delete and look at one path.                 *)
EXTENDS Service

CONSTANTS k1, k2, p1, c1

Ask1(op, config) == [op |-> op, path |-> p1, config |-> config, closed |-> FALSE]

AllAsks == {Ask1("create", c1), Ask1("close", None), Ask1("delete", None), Ask1("head", None)}
=============================================================================
