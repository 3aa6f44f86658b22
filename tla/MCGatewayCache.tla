---- MODULE MCGatewayCache ----
(* Instances of GatewayCache for TLC. *)
EXTENDS GatewayCache

CONSTANTS w1, w2

\* The list of threads, whose service calls another one for the counts of replies; the
\* comments of one of them; and the write that changes both.
Paths == [list |-> <<"/threads">>, comments |-> <<"/threads", "/1", "/comments">>]
Sources == [list |-> <<"threads", "comments">>, comments |-> <<"comments", "accounts">>]
Calls == [list |-> {"comments"}, comments |-> {}]
WritePaths == [comment |-> <<"/comments">>]
Targets == [comment |-> "comments"]

\* "Auth-dependent endpoints (notifications, /auth/me) are NEVER cached"
\* (cache.py): nobody is handed a response made for somebody else.
ResponseIsForItsReader ==
    \A w \in Workers :
        req[w].at = "answer" /\ req[w].page \in Personal => req[w].viewer = req[w].client

====
