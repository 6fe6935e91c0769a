-------------------------- MODULE MCClassification --------------------------
(***************************************************************************)
(* Two database editions, three addresses to look up for two cache         *)
(* entries, and a rotation from one key to the other with an overlap; two  *)
(* proxies, the first of which may be sent a header with two entries.      *)
(***************************************************************************)
EXTENDS Classification

CONSTANTS k1, k2, c1, c2, private, outer, inner, probe

MCKeySets == {{k1}, {k1, k2}, {k2}}

MCAddresses == {c1, c2, private, outer, inner, probe}
MCInnerProxies == <<outer>>
MCSentEntries == {<<>>, <<private>>, <<private, Blank>>, <<private, private>>}

(* "/healthz", "/admin/backends"; the empty prefix, "/", "/a", "/a/", "/a/b",     *)
(* "/a/b/c" and "/ab"; and below them.                                     *)
MCExemptPaths == {<<"healthz">>}
MCOwnRoutes == {<<"healthz">>, <<"admin", "backends">>}
MCPathPrefixes ==
    {<<>>, <<"">>, <<"a">>, <<"a", "">>, <<"a", "b">>, <<"a", "b", "c">>, <<"ab">>}
MCPaths == (MCPathPrefixes \ {<<>>}) \union MCOwnRoutes
              \union {<<"a", "c">>, <<"a", "b", "">>, <<"a", "b", "d">>, <<"a", "b", "c", "d">>}
MCBackends == <<[path_prefix |-> <<"a">>], [path_prefix |-> <<"a", "b">>],
                [path_prefix |-> <<"healthz">>]>>
=============================================================================
