--------------------------- MODULE MCServiceTable ---------------------------
(* Two services; a server and two clients of the second one.  Tables of an *)
(* earlier session do not name it.                                         *)
EXTENDS ServiceTable

CONSTANTS srv, c1, c2, s1, s2, s3

MCProcs == {srv, c1, c2}
MCServices == {s1, s2, s3}
MCRole == [p \in MCProcs |-> IF p = srv THEN "server" ELSE "client"]
MCServiceOf == [p \in MCProcs |-> s2]
MCConfig == [p \in MCProcs |-> <<s1, s2>>]
\* Another number of services, and the same number with another name.
MCStale == {<<>>, <<s1>>, <<s1, s3>>}
=============================================================================
