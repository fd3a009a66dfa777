----------------------------- MODULE MCLauncher -----------------------------
(* Three assets: a chain against the order of the file, two assets that     *)
(* need the others, and a cycle.                                            *)
EXTENDS Launcher

CONSTANTS a, b, c

MCAssets == {a, b, c}
MCListed == <<a, b, c>>
Deps(da, db, dc) == [x \in MCAssets |-> IF x = a THEN da ELSE IF x = b THEN db ELSE dc]
MCGraphs == {Deps({b}, {c}, {}), Deps({b, c}, {}, {b}), Deps({c}, {a}, {b})}
=============================================================================
