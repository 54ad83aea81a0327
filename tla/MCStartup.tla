----------------------------- MODULE MCStartup -----------------------------
EXTENDS Startup

CONSTANTS p1, p2

github  == Host("github", FALSE, 0)
www     == Host("www.github", TRUE, 1)
forge   == Host("forge", FALSE, 0)
owner   == Segment("plain", FALSE, FALSE, 0)
Owner   == Segment("plain", TRUE, TRUE, 0)
suffix  == Segment("plain", FALSE, FALSE, 1)
spaced  == Segment("spaced", FALSE, TRUE, 2)
dots    == Segment("dot", FALSE, FALSE, 0)
dotgit  == Segment("dot", FALSE, FALSE, 1)

(* Spellings of the same repositories, neighbours of them, and refusals.   *)
MCKnown == {Url("http", www, 80, <<Owner, suffix>>),
            Url("https", github, 0, <<owner, owner>>),
            Url("http", github, 443, <<owner, owner>>),
            Url("http", forge, 80, <<owner, spaced>>),
            Url("http", Host("forge", TRUE, 1), 0, <<owner, spaced>>),
            Url("http", forge, 0, <<owner, dots>>),
            Url("http", forge, 0, <<owner, dotgit>>)}

(* What an older version may have stored: spellings it did not bring to    *)
(* one form, and one that is refused today.                                *)
MCLegacy == {<<u>> : u \in {Url("http", www, 80, <<Owner, suffix>>),
                            Url("http", forge, 80, <<owner, spaced>>),
                            Url("http", forge, 0, <<owner, dots>>)}}
=============================================================================
