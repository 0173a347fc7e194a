------------------------------ MODULE MCImages ------------------------------
(***************************************************************************)
(* Spellings of five images, one of which has a name that is hex and one a *)
(* registry with a port.                                                   *)
(***************************************************************************)
EXTENDS Images

SomePaths == { <<"redis">>, <<"library", "redis">>, <<"docker.io", "redis">>,
               <<"docker.io", "library", "redis">>, <<"index.docker.io", "library", "redis">>,
               <<"grafana", "grafana">>, <<"docker.io", "grafana", "grafana">>,
               <<"index.docker.io", "grafana", "grafana">>,
               <<"ghcr.io", "foo", "redis">>, <<"localhost:5000", "app">>,
               <<"cafe">>, <<"docker.io", "library", "cafe">> }
SomeTags == {"latest", "alpine"}
SomeDigests == {"sha256:d1"}
OtherRegistries == {"ghcr.io", "localhost:5000"}
PortedRegistries == {"localhost:5000"}

Plainly(path, tag) == [from |-> [path |-> path, tail |-> <<>>], tag |-> tag]
\* Every path by the default tag; some by another, by a digest in fromImage, by a
\* digest in tag as the docker CLI sends it, and with a tag in fromImage.
SomePulls ==
    {Plainly(p, t) : p \in SomePaths, t \in {None}} \cup
    {Plainly(p, "alpine") : p \in { <<"library", "redis">>, <<"docker.io", "library", "redis">>,
                                    <<"docker.io", "grafana", "grafana">>, <<"localhost:5000", "app">> }}
    \cup {Plainly(<<"redis">>, "sha256:d1"), Plainly(<<"grafana", "grafana">>, "latest"),
          [from |-> [path |-> <<"docker.io", "redis">>, tail |-> <<At("sha256:d1")>>], tag |-> None],
          [from |-> [path |-> <<"library", "redis">>, tail |-> <<Colon("alpine")>>], tag |-> None]}

\* "cafe" as digits, a prefix two IDs share, a whole ID, and a prefix too short.
SomeDigits == [d \in {"cafe", "shared", "whole", "short"} |->
    CASE d = "cafe" -> <<1, 2>> [] d = "shared" -> <<1, 1>>
      [] d = "whole" -> <<1, 1, 0, 1>> [] d = "short" -> <<1>>]

\* IDs: redis:latest and redis:alpine share two digits, the ID of grafana:alpine
\* begins as "cafe" does, and the others differ from the first digit on.
Words == <<"redis", "grafana", "foo", "cafe", "app", "library", "docker.io", "index.docker.io",
           "ghcr.io", "localhost:5000", "latest", "alpine", "sha256:d1", ":", "@">>
Code(word) == CHOOSE i \in DOMAIN Words : Words[i] = word

SomeIds == [r \in Refs |->
    CASE r = [path |-> <<"redis">>, tail |-> <<Colon("latest")>>] -> <<1, 1, 0, 1>>
      [] r = [path |-> <<"redis">>, tail |-> <<Colon("alpine")>>] -> <<1, 1, 0, 2>>
      [] r = [path |-> <<"grafana", "grafana">>, tail |-> <<Colon("alpine")>>] -> <<1, 2, 0, 0>>
      [] OTHER -> <<3, Len(r.path), Len(r.tail)>> \o [i \in DOMAIN r.path |-> Code(r.path[i])]
                   \o FlattenSeq([i \in DOMAIN r.tail |-> <<Code(r.tail[i][1]), Code(r.tail[i][2])>>])]
=============================================================================
