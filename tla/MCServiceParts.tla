--------------------------- MODULE MCServiceParts ---------------------------
(***************************************************************************)
(* Model checking of ServiceParts: small sets for each of the parts.       *)
(***************************************************************************)
EXTENDS ServiceParts

CONSTANTS c1, c2, c3, x1, x2, s1, s2

\* Held changes: two elevated clients and one that is not.
MCClients == {c1, c2, c3}
MCElevated == {c1, c2}
MCChanges == {x1, x2}

\* Signed feed: a rotation that drops a signing key, two documents with the same
\* version, one signed by too few roots, and feeds for each of the versions.
Between(a, b) == [from |-> a, until |-> b]
KeysDoc(version, text, signing, expires) ==
    [version |-> version, text |-> text, signing |-> signing, threshold |-> 1,
     issued |-> 0, expires |-> expires, signers |-> {"r1", "r2"}]
FeedDoc(version, n, text, signers, issued, generates) ==
    [keysVersion |-> version, sequence |-> n, text |-> text, signers |-> signers,
     issued |-> issued, expires |-> 2, generates |-> generates]
MCKeysDocs ==
    {KeysDoc(1, "a", "k1" :> Between(0, 1) @@ "k2" :> Between(0, 2), 2),
     KeysDoc(2, "a", "k2" :> Between(0, 2), 2),
     KeysDoc(2, "b", "k1" :> Between(0, 2), 2),
     KeysDoc(3, "a", "k1" :> Between(0, 2) @@ "k2" :> Between(0, 2), 3),
     [KeysDoc(4, "a", "k1" :> Between(0, 2), 3) EXCEPT !.signers = {"r1"}]}
MCFeedDocs ==
    {FeedDoc(1, 1, "a", {"k1"}, 0, TRUE), FeedDoc(1, 2, "a", {"k1", "k2"}, 1, TRUE),
     FeedDoc(1, 2, "b", {"k1"}, 0, TRUE), FeedDoc(2, 1, "a", {"k2"}, 0, TRUE),
     FeedDoc(3, 1, "a", {"k1"}, 0, FALSE), FeedDoc(3, 2, "a", {"k2"}, 0, TRUE)}

\* Path watch: the preferred adapter may be given either of two routers, one of
\* them the router of the other adapter too.
MCPaths == {"wifi", "cell"}
MCGatewaysOf == [p \in MCPaths |-> IF p = "wifi" THEN {"g1", "g2"} ELSE {"g2"}]
MCPreference == [p \in MCPaths |-> IF p = "wifi" THEN 1 ELSE 0]

MCSubscribers == {s1, s2}

\* Probe race: one profile of each tier, and transfers at either limit.
MCTier == "q1" :> 1 @@ "q2" :> 2
MCMeasurements ==
    {[is |-> "HandshakeFailed"], [is |-> "HandshakeOnly"],
     [is |-> "Transferred", bytes |-> 4, took |-> 1], [is |-> "Transferred", bytes |-> 5, took |-> 2]}

\* Routing rules: a name written in two ways, one that is no name, a suffix over
\* it and one the resolvers are under, and an endpoint inside a bypassed range.
MCSpelled ==
    <<"com", "a">> :> <<"com", "a">> @@ <<"", "Com", "A">> :> <<"com", "a">>
        @@ <<"com">> :> <<"com">> @@ <<"dns">> :> <<"dns">> @@ <<"bad name">> :> <<>>
MCHosts == {<<"com">>, <<"com", "a">>, <<"com", "a", "x">>, <<"dns", "r">>, <<"ms">>, <<"org">>}
MCAddresses == {<<f, a, b>> : f \in {"v4", "v6", "mapped"}, a \in {"0", "1"}, b \in {"0", "1"}}
MCRanges == {<<"v4">>, <<"v4", "1">>, <<"v4", "1", "0">>, <<"v6", "1">>}
MCPool == {<<"v6", "1">>}
MCServers ==
    {<<"range", <<"v4", "0", "0">>>>, <<"range", <<"v4", "1", "1">>>>, <<"name", <<"com", "a">>>>}
MCOrigins == <<<<"v4", "0", "0">>>>
MCLocal == <<<<"v4", "0">>>>
MCPortals == <<<<"ms">>>>
MCResolvers == <<<<"dns">>>>

\* What a part that stays as it began began with makes no difference.
MCPartsInit ==
    /\ PartsInit
    /\ part # "held" => safe
    /\ part # "watch" => rows = {[on |-> "wifi", gateway |-> "g1"]}

MCPartsSpec == MCPartsInit /\ [][PartsNext]_partsVars
=============================================================================
