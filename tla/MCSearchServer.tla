--------------------------- MODULE MCSearchServer ---------------------------
(* SearchServer with two requests in flight, three served: one caller with  *)
(* a key and one with a cookie, and a save that lifts the ceiling and stops *)
(* telling callers apart.                                                   *)
EXTENDS SearchServer

CONSTANTS s1, s2, key1, guest1, d1

\* Three searches on one key, HTTP and MCP; then pairs: a stream next to a plain
\* search, a stream next to a free tool, a retrieval next to a search.
MCScripts == { <<<<"plain", key1>>, <<"plain", key1>>, <<"deep", key1>>>>,
               <<<<"stream", guest1>>, <<"plain", key1>>>>,
               <<<<"stream", key1>>, <<"free", key1>>>>,
               <<<<"semantic", key1>>, <<"plain", guest1>>>> }

MCSettings == << [limit |-> 1, quota |-> 1, caching |-> TRUE, aware |-> TRUE],
                 [limit |-> 2, quota |-> 1, caching |-> TRUE, aware |-> FALSE] >>
=============================================================================
