---------------------------- MODULE MCHttpCache ----------------------------
(***************************************************************************)
(* Small instances of HttpCache: a resource the server selects by language, *)
(* fetched in two languages, and one it does not select at all.             *)
(***************************************************************************)
EXTENDS HttpCache

CONSTANTS page, font, en1, en2, en3, fr1, ft1

MCKeyOf == [f \in Fetches |-> IF f = ft1 THEN font ELSE page]
MCHeaderOf == [f \in Fetches |-> [n \in Fields |-> IF f = fr1 THEN "fr" ELSE "en"]]
MCNeeds == [k \in Keys |-> IF k = page THEN Fields \ {"dpr"} ELSE {}]
MCSizeOf == [k \in Keys |-> IF k = page THEN 1 ELSE 2]

Headers(vary, maxAge, etag) == [vary |-> vary, maxAge |-> maxAge, etag |-> etag]
MCAnswers == {Headers({"lang"}, 1, TRUE), Headers({"lang", "*"}, 1, TRUE)}
MCUpdates == {<<>>, [maxAge |-> 0], [vary |-> {"lang", "dpr"}]}
SimpleAnswers == {Headers({"lang"}, 1, TRUE)}
SimpleUpdates == {<<>>}
=============================================================================
