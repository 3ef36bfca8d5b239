----------------------------- MODULE MCHttpCrawl -----------------------------
(* Four pages on two hosts, with and without Firecrawl in front of the        *)
(* internal provider.                                                         *)
EXTENDS HttpCrawl

CONSTANTS root, a, b, c, h1, h2

MCConfigurations == {<<"internal">>, <<"firecrawl", "internal">>}
MCLinks == [p \in Pages |-> IF p = root THEN <<a, b, c>> ELSE <<root, b>>]
MCHostOf == [p \in Pages |-> IF p \in {root, a} THEN h1 ELSE h2]
=============================================================================
