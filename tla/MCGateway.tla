------------------------------ MODULE MCGateway ------------------------------
(***************************************************************************)
(* Small instances of Gateway.                                             *)
(***************************************************************************)
EXTENDS Gateway

Ask(client, method, path) ==
    [authorised |-> TRUE, forwarded |-> None, addr |-> client, method |-> method,
     path |-> ApiPrefix \o path]

\* One payment endpoint and one ledger endpoint; a request without a key, one
\* for which no route exists and one with the wrong method; the client also comes
\* through a proxy that names it.
MCRequestKinds ==
    {Ask("a", "POST", <<"payments">>),
     [Ask("a", "POST", <<"payments">>) EXCEPT !.authorised = FALSE],
     Ask("a", "GET", <<"payments">>),
     Ask("a", "GET", <<"refunds">>),
     [Ask("a", "GET", <<"ledger", "balances">>) EXCEPT !.forwarded = "a", !.addr = "proxy"]}

AllEndpoints ==
    {Ask("a", r[1], SubSeq(r[2], Len(ApiPrefix) + 1, Len(r[2]))) : r \in Documented}

PathOfApi == ApiPrefix
NoPath == <<>>
=============================================================================
