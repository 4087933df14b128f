----------------------------- MODULE FileServer -----------------------------
(***************************************************************************)
(* fileHandler, serveFile and serveContent: what is decided before the     *)
(* content is copied.                                                      *)
(*                                                                         *)
(* A file system sends the segments of a name to a directory or a file     *)
(* with a size and a time of modification in half seconds; 0 is the zero   *)
(* time.  A Range header is a sequence of pairs of numbers as the grammar  *)
(* of the header has them, either of which may be missing.                 *)
(***************************************************************************)
EXTENDS Mux, FiniteSetsExt

INDEX == "index.html"

\* A variant that rounds the wrong way.
CheckRoundedUp(req, modtime) ==
    modtime # 0 /\ req.since # Nil /\ modtime < 2 * req.since + 3

checkLastModified(req, modtime) ==
    modtime # 0 /\ req.since # Nil /\ modtime < 2 * req.since + 2

\* What Last-Modified says: whole seconds.
LastModified(modtime) == IF modtime = 0 THEN Nil ELSE modtime \div 2

NotModified == Reply(304, "not modified", Nil)

-----------------------------------------------------------------------------
(***************************************************************************)
(* Ranges.                                                                 *)
(***************************************************************************)
Least(a, b) == IF a < b THEN a ELSE b

BadRange(spec, size) ==
    \/ spec.start = Nil /\ spec.end = Nil
    \/ spec.start # Nil /\ (spec.start > size \/ (spec.end # Nil /\ spec.start > spec.end))

\* A variant that takes the last byte for the end.
OneRangeShort(spec, size) ==
    IF spec.start = Nil THEN [start |-> size - Least(spec.end, size), length |-> Least(spec.end, size)]
    ELSE IF spec.end = Nil THEN [start |-> spec.start, length |-> size - spec.start]
    ELSE [start |-> spec.start, length |-> Least(spec.end, size) - spec.start]

OneRange(spec, size) ==
    IF spec.start = Nil THEN [start |-> size - Least(spec.end, size), length |-> Least(spec.end, size)]
    ELSE IF spec.end = Nil THEN [start |-> spec.start, length |-> size - spec.start]
    ELSE [start |-> spec.start, length |-> Least(spec.end, size - 1) - spec.start + 1]

\* The ranges of the header, or Nil where parseRange fails.
parseRange(header, size) ==
    IF header = Nil THEN <<>>
    ELSE IF \E i \in DOMAIN header : BadRange(header[i], size) THEN Nil
    ELSE [i \in DOMAIN header |-> OneRange(header[i], size)]

sumRangesSize(ranges) ==
    LET upto[i \in 0 .. Len(ranges)] == IF i = 0 THEN 0 ELSE upto[i - 1] + ranges[i].length
    IN upto[Len(ranges)]

\* Every part has a header, and the last boundary comes behind them.
rangesMIMESize(ranges) == sumRangesSize(ranges) + Len(ranges) + 1

-----------------------------------------------------------------------------
serveContent(req, name, f) ==
    LET asked  == parseRange(req.range, f.size)
        ranges == IF asked = Nil \/ sumRangesSize(asked) >= f.size THEN <<>> ELSE asked
        content(code, rs) ==
            [Reply(code, "content", Nil) EXCEPT
                !.file = name, !.ranges = rs, !.multi = Len(rs) > 1,
                !.lastmod = LastModified(f.modtime)]
    IN IF checkLastModified(req, f.modtime) THEN NotModified
       ELSE IF asked = Nil
          THEN [Reply(416, "bad range", Nil) EXCEPT !.lastmod = LastModified(f.modtime)]
       ELSE IF ranges = <<>> THEN content(200, <<[start |-> 0, length |-> f.size]>>)
       ELSE content(206, ranges)

\* Content-Length of a reply with content.
SendSize(reply) == IF reply.multi THEN rangesMIMESize(reply.ranges) ELSE reply.ranges[1].length

\* Location relative to the request: "./", the directory with its slash, and the file
\* without one.
localRedirect(ref) == Reply(301, "redirect", ref)

\* A variant that stays in the directory.
FileWithoutSlash(p) == localRedirect(Ref(FALSE, <<Base(p)>>, FALSE))

FileRedirect(p) == localRedirect(Ref(FALSE, <<"..", Base(p)>>, FALSE))
DirRedirect(p)  == localRedirect(Ref(FALSE, <<Base(p)>>, TRUE))

\* A directory is shown by its index page if it has one.
Shown(fs, name) ==
    IF fs[name].dir /\ Append(name, INDEX) \in DOMAIN fs THEN Append(name, INDEX) ELSE name

serveFile(fs, req, p) ==
    LET name  == Clean(p.segs)
        shown == Shown(fs, name)
    IN IF ~p.slash /\ p.segs # <<>> /\ Last(p.segs) = INDEX
          THEN localRedirect(Ref(FALSE, <<".">>, TRUE))
       ELSE IF name \notin DOMAIN fs THEN NotFound
       ELSE IF fs[name].dir /\ ~p.slash /\ p.segs # <<>> THEN DirRedirect(p)
       ELSE IF ~fs[name].dir /\ p.slash THEN FileRedirect(p)
       ELSE IF ~fs[shown].dir THEN serveContent(req, shown, fs[shown])
       ELSE IF checkLastModified(req, fs[shown].modtime) THEN NotModified
       ELSE [Reply(200, "listing", Nil) EXCEPT
                !.file = shown, !.lastmod = LastModified(fs[shown].modtime)]
=============================================================================
