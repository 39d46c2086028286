----------------------------- MODULE MCStartup ------------------------------
(***************************************************************************)
(* Startup for TLC.  Two kinds of configurations: with a driver that has   *)
(* no login and each choice of endpoints, for the start of two servers;    *)
(* and with each driver on one endpoint, for the sessions of two services  *)
(* with the same or with different accounts.                               *)
(***************************************************************************)
EXTENDS Startup, TLC

CONSTANTS x1, x2, svcA, svcB, home, away

One == {x1}
Two == {x1, x2}

Setup(start, driver, complete, section, eps, acct, nocache) ==
    [start |-> start, requests |-> IF start = One THEN 3 ELSE 2,
     driver |-> driver, logging |-> TRUE, complete |-> complete,
     section |-> section, eps |-> eps, host |-> "unset",
     acct |-> acct, nocache |-> nocache, region |-> home]

Accounts(x, y) == [v \in Service |-> IF v = svcA THEN x ELSE y]

Same == Accounts("k1", "k1")

Boots ==
    {Setup(Two, "dobs", TRUE, TRUE, eps, Same, FALSE) :
        eps \in {{}, {"auto"}, {"fixed"}, {"auto", "fixed"}, {"auto", "missing"}}}
    \cup {[Setup(Two, "dobs", TRUE, FALSE, {}, Same, FALSE) EXCEPT !.host = h] :
             h \in {"fixed", "missing"}}
    \cup {Setup(One, "scaleio", c, FALSE, {}, Same, FALSE) : c \in BOOLEAN}
    \cup {Setup(One, d, TRUE, FALSE, {}, Same, FALSE) : d \in {"isilon", "vbox"}}
    \cup {Setup(One, "azureud", FALSE, FALSE, {}, Same, FALSE),
          [Setup(One, "dobs", TRUE, FALSE, {}, Same, FALSE) EXCEPT !.logging = FALSE]}

Logins ==
    {Setup(One, d, TRUE, TRUE, {"fixed"}, Accounts("k1", k), FALSE) :
        d \in {"ebs", "fittedcloud", "efs", "gcepd", "azureud", "s3fs"}, k \in {"k1", "k2"}}
    \cup {Setup(One, "efs", TRUE, TRUE, {"fixed"}, Same, TRUE),
          Setup(One, "gcepd", TRUE, TRUE, {"fixed"}, Accounts("k1", "default"), FALSE),
          [Setup(One, "s3fs", TRUE, TRUE, {"fixed"}, Same, FALSE) EXCEPT !.region = away]}

AllSetups == Boots \cup Logins
=============================================================================
