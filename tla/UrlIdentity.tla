----------------------------- MODULE UrlIdentity -----------------------------
(***************************************************************************)
(* Which URLs name the same repository: parse_repository_url, and the text *)
(* of its result, which is the key of the table repositories.              *)
(*                                                                         *)
(* A URL is a record of the parts that the parser looks at.  A host has a  *)
(* name, perhaps capitals and trailing dots.  A segment of the path has a  *)
(* stem, perhaps capitals, percent-encoding, and ".git" at its end any     *)
(* number of times.  Port 0 is no port.                                    *)
(***************************************************************************)
EXTENDS Integers, Sequences

CONSTANTS
    HostName,     \* names of hosts, in lower case
    Stem          \* what segments consist of

ASSUME NameAssumption == "github" \in HostName

Host(name, upper, dots)      == [name |-> name, upper |-> upper, dots |-> dots]
Segment(stem, upper, enc, git) == [stem |-> stem, upper |-> upper, enc |-> enc, git |-> git]
Url(scheme, host, port, path) ==
    [scheme |-> scheme, host |-> host, port |-> port, path |-> path]

(* The texts with the shape of a repository URL: http or https, a host, a  *)
(* port that is left out or a valid one, and a path.                       *)
HostType    == [name : HostName, upper : BOOLEAN, dots : Nat]
SegmentType == [stem : Stem, upper : BOOLEAN, enc : BOOLEAN, git : Nat]
Port        == 0..65535
UrlType     == [scheme : {"http", "https"}, host : HostType, port : Port,
                path : Seq(SegmentType)]

(* std::nullopt, and the empty text.                                       *)
Bad == Url("none", Host("none", FALSE, 0), 0, << >>)

(* Three stems are special: "spaced" has a character that is printed as    *)
(* %XX, "dot" and "empty" are no names.                                    *)
NeedsEncoding(stem) == stem = "spaced"

(* decode_url_path_segment: a segment that is empty or a dot is refused,   *)
(* before a suffix is removed.                                             *)
Decodable(s) == s.git > 0 \/ s.stem \notin {"dot", "empty"}
Decoded(s) == [s EXCEPT !.enc = FALSE]
Encoded(s) == [s EXCEPT !.enc = NeedsEncoding(s.stem)]

DefaultPort(scheme) == IF scheme = "http" THEN 80 ELSE 443
LowerHost(h) == [h EXCEPT !.upper = FALSE, !.dots = 0]

(* The port of parse_authority: none if it is the scheme's own.            *)
PortOf(scheme, port) == IF port = DefaultPort(scheme) THEN 0 ELSE port

IsGitHub(u) == u.host.name \in {"github", "www.github"} /\ u.port = 0

Last(path) == path[Len(path)]
WithoutSuffix(path) ==
    [path EXCEPT ![Len(path)].git = IF @ > 0 THEN @ - 1 ELSE 0]
(* The suffix that the text of every identity ends with.                   *)
WithSuffix(path) == [path EXCEPT ![Len(path)].git = @ + 1]

GitHubForm(u) ==
    IF Len(u.path) # 2 \/ \E i \in DOMAIN u.path : NeedsEncoding(u.path[i].stem)
    THEN Bad
    ELSE Url("https", Host("github", FALSE, 0), 0,
             [i \in DOMAIN u.path |-> [u.path[i] EXCEPT !.upper = FALSE]])

(* The URL with lower-case host, without its default port, with decoded    *)
(* segments and without the suffix; github.com is one host, always https   *)
(* and indifferent to case.                                                *)
Parsed(u) ==
    LET path  == [i \in DOMAIN u.path |-> Decoded(u.path[i])]
        plain == Url(u.scheme, LowerHost(u.host), PortOf(u.scheme, u.port),
                     WithoutSuffix(path))
    IN  IF Len(u.path) < 2 \/ \E i \in DOMAIN u.path : ~Decodable(u.path[i]) THEN Bad
        ELSE IF Last(plain.path).stem = "empty" /\ Last(plain.path).git = 0 THEN Bad
        ELSE IF IsGitHub(plain) THEN GitHubForm(plain) ELSE plain

(* ParsedRepositoryUrl::normalized, as the URL that its text is.           *)
Normalized(u) ==
    IF Parsed(u) = Bad THEN Bad
    ELSE LET p == Parsed(u)
         IN  [p EXCEPT !.path = WithSuffix([i \in DOMAIN p.path |-> Encoded(p.path[i])])]

(* Reference: what a URL denotes, whatever way it is spelled: a server, by *)
(* the port that is really used, and a path; GitHub is one server.  With   *)
(* or without its suffix a segment is the same name; but a bare dot is no  *)
(* name, it leads somewhere else, and ".git" after it makes it one.        *)
UsedPort(u) == IF u.port = 0 THEN DefaultPort(u.scheme) ELSE u.port
OfGitHub(u) ==
    u.host.name \in {"github", "www.github"} /\ UsedPort(u) = DefaultPort(u.scheme)
Server(u) == IF OfGitHub(u) THEN <<"github">> ELSE <<u.scheme, u.host.name, UsedPort(u)>>
Names(u) ==
    [i \in DOMAIN u.path |->
        [stem  |-> u.path[i].stem,
         named |-> Decodable(u.path[i]),
         upper |-> ~OfGitHub(u) /\ u.path[i].upper,
         git   |-> IF i = Len(u.path) /\ u.path[i].git > 0 THEN u.path[i].git - 1
                   ELSE u.path[i].git]]
Denotes(u) == <<Server(u), Names(u)>>
=============================================================================
