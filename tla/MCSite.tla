------------------------------- MODULE MCSite -------------------------------
(***************************************************************************)
(* The pages of the proxy at "/", files under "/files/", and redirects: one*)
(* for the tree "/old/" with a handler of its own for "/old", one that     *)
(* leads to itself, and one for a single host.                             *)
(***************************************************************************)
EXTENDS Site, TLC

Proxy   == [kind |-> "proxy", code |-> 200, prefix |-> <<>>, to |-> Nil]
To(segs, slash) == [kind |-> "redirect", code |-> 302, prefix |-> <<>>, to |-> Ref(FALSE, segs, slash)]

MCHandlers ==
    (Pattern(AnyHost, <<>>, TRUE)         :> Proxy) @@
    (Pattern(AnyHost, <<"files">>, TRUE)  :> FilesAt(<<"files">>)) @@
    (Pattern(AnyHost, <<"old">>, TRUE)    :> To(<<"..", "files">>, TRUE)) @@
    (Pattern(AnyHost, <<"old">>, FALSE)   :> To(<<"admin">>, FALSE)) @@
    (Pattern(AnyHost, <<"loop">>, FALSE)  :> To(<<"loop">>, FALSE)) @@
    (Pattern(Host, <<"admin", "here">>, FALSE) :> To(<<"kick">>, FALSE))

\* A table with an administrator and a source, under their names and through "source".
MCUsers == ("ada" :> [pass |-> "p", privileges |-> 5]) @@ ("sam" :> [pass |-> "q", privileges |-> 2])
ada == [name |-> "ada", inner |-> Nil, pass |-> "p"]
sam == [name |-> "source", inner |-> "sam", pass |-> "q"]

MCFiles ==
    (<<>>                  :> [dir |-> TRUE,  size |-> 0, modtime |-> 4]) @@
    (<<"f">>               :> [dir |-> FALSE, size |-> 3, modtime |-> 4]) @@
    (<<"d">>               :> [dir |-> TRUE,  size |-> 0, modtime |-> 0]) @@
    (<<"d", "index.html">> :> [dir |-> FALSE, size |-> 1, modtime |-> 5])

Req(scheme, segs, slash, creds, range) ==
    [scheme |-> scheme, path |-> Path(segs, slash), method |-> "GET", creds |-> creds,
     range |-> range, since |-> Nil]
From(n) == [start |-> n, end |-> Nil]
FromTo(n, m) == [start |-> n, end |-> m]
Suffix(n) == [start |-> Nil, end |-> n]

MCGets ==
    {Req("file", <<"f">>, slash, Nil, Nil) : slash \in BOOLEAN}
    \cup {Req("file", segs, FALSE, Nil, Nil) :
            segs \in {<<"d">>, <<"d", "index.html">>, <<"d", "..", "none">>, <<"f", "index.html">>}}
    \cup {Req("http", <<"files", "d", "..", "f">>, TRUE, Nil, Nil), Req("http", <<"files">>, FALSE, Nil, Nil)}
    \cup {Req("file", <<"f">>, FALSE, Nil, range) :
            range \in {<<FromTo(1, 1)>>, <<Suffix(2)>>, <<From(4)>>, <<FromTo(0, 0), FromTo(2, 9)>>}}
    \cup {[Req("file", <<"f">>, FALSE, Nil, <<From(2), Suffix(1)>>) EXCEPT !.method = "HEAD"]}
    \cup {Req("http", <<"admin", "x", "..", "kick">>, FALSE, creds, Nil) : creds \in {ada, sam, Nil}}
    \cup {Req("http", <<"admin", p>>, FALSE, sam, Nil) : p \in {"metadata", "listclients", "here"}}
    \cup {Req("http", segs, slash, ada, Nil) :
            segs \in {<<"old">>, <<"loop">>}, slash \in BOOLEAN}

ASSUME OrderlySite
=============================================================================
