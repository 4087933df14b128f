-------------------------------- MODULE Site --------------------------------
(***************************************************************************)
(* A Client that follows redirects through a ServeMux with the pages of    *)
(* the proxy, a file server behind StripPrefix and fixed redirects, or     *)
(* through a file transport straight to the file server, while files       *)
(* change.                                                                 *)
(*                                                                         *)
(* A reply with content is copied by the handler's goroutine, from the     *)
(* file or, if it has several ranges, from a pipe that a goroutine of its  *)
(* own fills with the parts.  The body is handed over unit by unit: a unit *)
(* is a byte, the header of a part, or the last boundary.                  *)
(***************************************************************************)
EXTENDS Access, FileServer

CONSTANTS
    Handlers,         \* the handlers to register, by pattern
    Gets,             \* the requests that may be made
    MaxGets,          \* bound on them
    Host,             \* the host they are made to
    Sizes, MaxChanges, FirstFiles

Segment  == STRING
Paths    == [segs : Seq(Segment), slash : BOOLEAN]
Refs     == [abs : BOOLEAN, segs : Seq(Segment), slash : BOOLEAN]
Patterns == [host : Segment \cup {AnyHost}, segs : Seq(Segment), slash : BOOLEAN]
Routes   == [kind : {"proxy", "redirect", "files"}, code : Nat, prefix : Seq(Segment),
             to : Refs \cup {Nil}]
Stats    == [dir : BOOLEAN, size : Nat, modtime : Nat]
Specs    == Seq([start : Nat \cup {Nil}, end : Nat \cup {Nil}])

\* Names that the code itself puts into paths are segments like others (strings are
\* strings: no prover at hand knows).
ASSUME SegmentAssumption == {".", "..", INDEX, "admin"} \subseteq Segment

ASSUME SiteAssumption ==
    /\ MaxGets \in Nat /\ MaxChanges \in Nat /\ Sizes \subseteq Nat /\ Host \in Segment
    /\ Nil \notin Nat \cup Refs \cup Routes \cup Paths
    /\ Handlers \in [DOMAIN Handlers -> Routes] /\ DOMAIN Handlers \subseteq Patterns
    /\ \A k \in DOMAIN Handlers :
          Handlers[k].kind = "redirect" =>
              Handlers[k].to # Nil /\ Handlers[k].code \in {301, 302, 303, 307}
    \* the files are a tree, and what lies in a directory lies in a directory
    /\ FirstFiles \in [DOMAIN FirstFiles -> Stats] /\ DOMAIN FirstFiles \subseteq Seq(Segment)
    /\ <<>> \in DOMAIN FirstFiles /\ FirstFiles[<<>>].dir /\ Nil \notin DOMAIN FirstFiles
    /\ \A n \in DOMAIN FirstFiles \ {<<>>} :
          Front(n) \in DOMAIN FirstFiles /\ FirstFiles[Front(n)].dir
    /\ \A ask \in Gets :
          /\ DOMAIN ask = {"scheme", "path", "method", "creds", "range", "since"}
          /\ ask.scheme \in {"http", "file"} /\ ask.path \in Paths
          /\ ask.range \in Specs \cup {Nil} /\ ask.since = Nil

VARIABLES
    mux,       \* ServeMux.m
    todo,      \* patterns that are not registered yet
    files,     \* the file system
    changes,   \* how often it has changed
    client,    \* the goroutine in doFollowingRedirects
    copy,      \* for each Get: the goroutine that serves its content
    parts      \* for each Get: the goroutine that writes the parts

vars == <<mux, todo, files, changes, client, copy, parts>>

RedirectLimit == 10

NoCopy == [at |-> "none", file |-> Nil, ranges |-> <<>>, multi |-> FALSE, left |-> 0,
           off |-> 0, sent |-> <<>>]

Init ==
    /\ mux = <<>> /\ todo = DOMAIN Handlers
    /\ files = FirstFiles /\ changes = 0
    /\ client = [at |-> "idle", num |-> 0, ask |-> Nil, req |-> Nil, via |-> 0, reply |-> Nil,
                 copied |-> Nil, steady |-> TRUE, closed |-> FALSE]
    /\ copy = [g \in 1 .. MaxGets |-> NoCopy]
    /\ parts = [g \in 1 .. MaxGets |-> [at |-> "none", part |-> 1, off |-> -1]]

-----------------------------------------------------------------------------
\* Patterns are registered in any order, before Serve.
Register(pattern) ==
    /\ pattern \in todo /\ ~AlreadyHandled(mux, pattern)
    /\ mux' = Handle(mux, pattern, Handlers[pattern])
    /\ todo' = todo \ {pattern}
    /\ UNCHANGED <<files, changes, client, copy, parts>>

-----------------------------------------------------------------------------
(***************************************************************************)
(* What a request gets.                                                    *)
(***************************************************************************)
\* ServeMux.ServeHTTP sends a path that is not clean back, and looks for a handler.
\* The scheme "file" has a protocol of its own, without a mux.
Dispatch(req) ==
    IF req.scheme = "file" THEN FilesAt(<<>>)
    ELSE IF cleanPath(req.path) # req.path THEN Cleaner(cleanPath(req.path))
    ELSE handler(mux, Host, req.path)

\* The reply of handler h to a request with the path p left of it.
RoundTrip(h, req, p, up) ==
    CASE h = Nil -> NotFound
      [] h # Nil /\ h.kind = "proxy" -> mainHandler(req, up)
      [] h # Nil /\ h.kind = "redirect" -> Redirect(req.path, h.to, h.code)
      [] h # Nil /\ h.kind = "files" /\ p = Nil -> NotFound
      [] h # Nil /\ h.kind = "files" /\ p # Nil -> serveFile(files, req, p)

-----------------------------------------------------------------------------
(***************************************************************************)
(* Client.Get and Client.Head.                                             *)
(***************************************************************************)
\* A later request for the same may carry the Last-Modified of the first.
Conditional(ask) ==
    IF client.copied # Nil /\ client.copied.ask = ask
    THEN {ask, [ask EXCEPT !.since = client.copied.lastmod]} ELSE {ask}

StartGet(ask) ==
    /\ todo = {} /\ client.at = "idle" /\ client.num < MaxGets /\ ask \in Gets
    /\ \E req \in Conditional(ask) :
          client' = [client EXCEPT !.at = "send", !.num = @ + 1, !.ask = ask, !.req = req,
                                   !.via = 0, !.reply = Nil, !.steady = TRUE, !.closed = FALSE]
    /\ UNCHANGED <<mux, todo, files, changes, copy, parts>>

Copying(reply) == reply.page = "content"

StartCopy(g, reply) ==
    /\ copy' = [copy EXCEPT ![g] =
          [at |-> "copy", file |-> reply.file, ranges |-> reply.ranges, multi |-> reply.multi,
           left |-> IF client.req.method = "HEAD" THEN 0 ELSE SendSize(reply),
           off |-> reply.ranges[1].start, sent |-> <<>>]]
    /\ parts' = [parts EXCEPT ![g].at = IF reply.multi THEN "parts" ELSE @]

\* send.  The response is handed over when the handler first writes, or ends; the
\* copying goes on behind it.
Send(up) ==
    /\ client.at = "send"
    /\ \E h \in {Dispatch(client.req)} :
       \E p \in {IF h = Nil THEN Nil ELSE StripPrefix(h.prefix, client.req.path)} :
       \E reply \in {RoundTrip(h, client.req, p, up)} :
         /\ client' = [client EXCEPT !.at = IF Copying(reply) THEN "body" ELSE "reply",
                                     !.reply = reply]
         /\ \/ Copying(reply) /\ StartCopy(client.num, reply)
            \/ ~Copying(reply) /\ UNCHANGED <<copy, parts>>
    /\ UNCHANGED <<mux, todo, files, changes>>

shouldRedirect(code) == code \in {301, 302, 303, 307}

defaultCheckRedirect == client.via + 1 < RedirectLimit

\* A variant that forgets the requests before the last one.
FollowForgetting ==
    /\ client.at = "reply" /\ shouldRedirect(client.reply.code) /\ client.reply.location # Nil
    /\ client' = [client EXCEPT !.at = "send",
                                !.req.path = Resolve(client.req.path, client.reply.location),
                                !.req.since = Nil, !.req.range = Nil, !.via = 1]
    /\ UNCHANGED <<mux, todo, files, changes, copy, parts>>

\* The next request has a new, empty header; the URL keeps the credentials.
Follow ==
    /\ client.at = "reply" /\ shouldRedirect(client.reply.code)
    /\ client.reply.location # Nil /\ defaultCheckRedirect
    /\ client' = [client EXCEPT !.at = "send",
                                !.req.path = Resolve(client.req.path, client.reply.location),
                                !.req.since = Nil, !.req.range = Nil, !.via = @ + 1]
    /\ UNCHANGED <<mux, todo, files, changes, copy, parts>>

GiveUp ==
    /\ client.at = "reply" /\ shouldRedirect(client.reply.code)
    /\ client.reply.location = Nil \/ ~defaultCheckRedirect
    /\ client' = [client EXCEPT !.at = "done", !.reply = Reply(0, "error", Nil)]
    /\ UNCHANGED <<mux, todo, files, changes, copy, parts>>

Got ==
    /\ client.at = "reply" /\ ~shouldRedirect(client.reply.code)
    /\ client' = [client EXCEPT !.at = "done"]
    /\ UNCHANGED <<mux, todo, files, changes, copy, parts>>

\* The caller reads a body to its end, or closes it before.
BodyEnds ==
    /\ client.at = "body" /\ copy[client.num].at = "ended"
    /\ client' = [client EXCEPT !.at = "done"]
    /\ UNCHANGED <<mux, todo, files, changes, copy, parts>>

CloseBody ==
    /\ client.at = "body" /\ copy[client.num].at # "ended"
    /\ client' = [client EXCEPT !.at = "done", !.closed = TRUE]
    /\ UNCHANGED <<mux, todo, files, changes, copy, parts>>

\* The caller has seen the reply; it keeps what it has read in full, with its date.
Keep ==
    /\ client.at = "done"
    /\ client' = [client EXCEPT
          !.at = "idle",
          !.copied = IF client.reply.lastmod # Nil /\ client.reply.code = 200 /\ ~client.closed
                     THEN [ask |-> client.ask, lastmod |-> client.reply.lastmod,
                           file |-> client.reply.file, modtime |-> files[client.reply.file].modtime]
                     ELSE @]
    /\ UNCHANGED <<mux, todo, files, changes, copy, parts>>

-----------------------------------------------------------------------------
(***************************************************************************)
(* Copying.                                                                *)
(***************************************************************************)
Listening(g) == client.at = "body" /\ client.num = g
Put(c, unit) == [c EXCEPT !.left = @ - 1, !.sent = Append(@, unit)]

\* A variant that copies to the end of the file.
CopyAll(g) ==
    LET c == copy[g] IN
    /\ c.at = "copy" /\ ~c.multi /\ Listening(g) /\ c.off < files[c.file].size
    /\ copy' = [copy EXCEPT ![g] = [Put(c, c.off) EXCEPT !.off = @ + 1]]
    /\ UNCHANGED <<mux, todo, files, changes, client, parts>>

\* io.CopyN from the file.
CopyByte(g) ==
    LET c == copy[g] IN
    /\ c.at = "copy" /\ ~c.multi /\ c.left > 0 /\ Listening(g) /\ c.off < files[c.file].size
    /\ copy' = [copy EXCEPT ![g] = [Put(c, c.off) EXCEPT !.off = @ + 1]]
    /\ UNCHANGED <<mux, todo, files, changes, client, parts>>

\* CopyN has copied all, has come to an early end, or cannot write any more.  The
\* pipe and the file are closed when it returns.
CopyEnds(g) ==
    LET c == copy[g] IN
    /\ c.at = "copy"
    /\ \/ c.left = 0
       \/ ~Listening(g)
       \/ ~c.multi /\ c.off >= files[c.file].size
       \/ c.multi /\ parts[g].at = "exit"
    /\ copy' = [copy EXCEPT ![g].at = "ended"]
    /\ UNCHANGED <<mux, todo, files, changes, client, parts>>

\* The goroutine that writes the parts: the unit it is to write next, -1 for the
\* header of a part and -2 for the last boundary.
PartUnit(g) ==
    LET w == parts[g] IN
    IF w.part > Len(copy[g].ranges) THEN -2
    ELSE IF w.off < 0 THEN -1 ELSE copy[g].ranges[w.part].start + w.off

AfterUnit(g) ==
    LET w == parts[g] IN
    CASE PartUnit(g) = -2 -> [w EXCEPT !.at = "exit"]
      [] PartUnit(g) # -2 /\ w.off + 1 < copy[g].ranges[w.part].length -> [w EXCEPT !.off = @ + 1]
      [] PartUnit(g) # -2 /\ w.off + 1 >= copy[g].ranges[w.part].length ->
            [w EXCEPT !.part = @ + 1, !.off = -1]

\* A write to the pipe meets the read of CopyN.
WritePart(g) ==
    LET c == copy[g] IN
    /\ parts[g].at = "parts" /\ c.at = "copy" /\ c.left > 0 /\ Listening(g)
    /\ PartUnit(g) < files[c.file].size
    /\ copy' = [copy EXCEPT ![g] = Put(c, PartUnit(g))]
    /\ parts' = [parts EXCEPT ![g] = AfterUnit(g)]
    /\ UNCHANGED <<mux, todo, files, changes, client>>

\* A variant that does not notice that the pipe has been closed.
PartLost(g) ==
    /\ parts[g].at = "parts" /\ PartUnit(g) >= files[copy[g].file].size
    /\ parts' = [parts EXCEPT ![g].at = "exit"]
    /\ UNCHANGED <<mux, todo, files, changes, client, copy>>

\* The pipe has been closed, or the file has become too short.
PartFails(g) ==
    /\ parts[g].at = "parts"
    /\ copy[g].at = "ended" \/ PartUnit(g) >= files[copy[g].file].size
    /\ parts' = [parts EXCEPT ![g].at = "exit"]
    /\ UNCHANGED <<mux, todo, files, changes, client, copy>>

-----------------------------------------------------------------------------
(***************************************************************************)
(* The file system changes: a file is written anew, half a second or a     *)
(* second later than before; a file and a directory change places, which   *)
(* leaves files alone that are open.                                       *)
(***************************************************************************)
Changed ==
    /\ changes < MaxChanges /\ changes' = changes + 1
    /\ client' = [client EXCEPT !.steady = FALSE]
    /\ UNCHANGED <<mux, todo, copy, parts>>

Rewrite(name, size, later) ==
    /\ name \in DOMAIN files /\ ~files[name].dir
    /\ files' = [files EXCEPT ![name].size = size, ![name].modtime = @ + later]
    /\ Changed

Swap(name) ==
    /\ name \in DOMAIN files /\ name # <<>>
    /\ \A g \in 1 .. MaxGets : copy[g].at # "copy"
    /\ \A n \in DOMAIN files : IsPrefix(name, n) => n = name
    /\ files' = [files EXCEPT ![name].dir = ~@, ![name].modtime = @ + 2]
    /\ Changed

-----------------------------------------------------------------------------
Get == (\E up \in BOOLEAN : Send(up)) \/ Follow \/ GiveUp \/ Got \/ BodyEnds \/ CloseBody \/ Keep
Serve(g) == CopyByte(g) \/ CopyEnds(g) \/ WritePart(g)

Next ==
    \/ \E pattern \in todo : Register(pattern)
    \/ \E ask \in Gets : StartGet(ask)
    \/ Get
    \/ \E g \in 1 .. MaxGets : Serve(g) \/ PartFails(g)
    \/ \E name \in DOMAIN files : Swap(name) \/ \E s \in Sizes, l \in {1, 2} : Rewrite(name, s, l)

\* Goroutines are scheduled; a caller reads a body to its end or closes it.
Fairness ==
    /\ WF_vars(Get)
    /\ \A g \in 1 .. MaxGets : WF_vars(Serve(g)) /\ WF_vars(PartFails(g))

Spec == Init /\ [][Next]_vars /\ Fairness

-----------------------------------------------------------------------------
(***************************************************************************)
(* Properties.                                                             *)
(***************************************************************************)
Pages == {"admin", "source", "metadata", "listclients", "empty", "content", "listing",
          "not found", "unauthorized", "not modified", "bad range", "redirect", "error"}

\* The state of the mux, of the client and of the goroutines that copy keeps its
\* type; a copy never has less than nothing left, and no part is written behind the
\* last one.
TypeOK ==
    /\ todo \subseteq DOMAIN Handlers /\ changes \in 0 .. MaxChanges
    /\ client.at \in {"idle", "send", "reply", "body", "done"}
    /\ client.num \in 0 .. MaxGets /\ client.via \in 0 .. RedirectLimit
    /\ client.reply # Nil => client.reply.page \in Pages
    /\ \A g \in 1 .. MaxGets :
         /\ copy[g].at \in {"none", "copy", "ended"} /\ copy[g].left \in Nat
         /\ parts[g].at \in {"none", "parts", "exit"}
         /\ parts[g].part \in 1 .. Len(copy[g].ranges) + 1

\* The patterns that were registered, as the documentation of ServeMux orders them:
\* the path itself, then the subtree of that name (which redirects there), then the
\* longest subtree around it; those with a host come first.
Route(host, p) ==
    LET exact == Pattern(host, p.segs, p.slash)
        tree  == Pattern(host, p.segs, TRUE)
        above == {k \in DOMAIN Handlers : k.host = host /\ k.slash /\ IsPrefix(k.segs, p.segs)}
    IN IF exact \in DOMAIN Handlers THEN Handlers[exact]
       ELSE IF tree \in DOMAIN Handlers THEN RedirectHandler(tree)
       ELSE IF above = {} THEN Nil
       ELSE Handlers[CHOOSE k \in above : \A j \in above : Len(j.segs) <= Len(k.segs)]

RouteOf(p) == LET h == Route(Host, p) IN IF h # Nil THEN h ELSE Route(AnyHost, p)

\* Once all patterns are registered, in whatever order, a request is routed by the
\* set of patterns alone: no implicit redirect hides an explicit handler.  (The
\* mux does not change after the first request.)
RoutesByPattern ==
    todo = {} /\ client.num = 0 =>
      \A ask \in Gets :
        LET p == cleanPath(ask.path) IN handler(mux, Host, p) = RouteOf(p)

\* The file that a path stands for, however it is spelled: what the name without its
\* dots and slashes denotes, or the directory around an index page.
Denoted(fs, p) ==
    LET name  == Clean(p.segs)
        index == ~p.slash /\ p.segs # <<>> /\ Last(p.segs) = INDEX
        n     == IF index THEN Front(name) ELSE name
    IN IF n \notin DOMAIN fs THEN Nil ELSE Shown(fs, n)

\* What a request to the file server asks for, behind the prefix of its handler.
FilesRoute(h) == h # Nil /\ h.kind = "files"
ToFiles(req) == req.scheme = "file" \/ FilesRoute(RouteOf(cleanPath(req.path)))
LocalPath(req) ==
    IF req.scheme = "file" THEN req.path
    ELSE StripPrefix(RouteOf(cleanPath(req.path)).prefix, cleanPath(req.path))

ToProxy(req) ==
    LET h == RouteOf(cleanPath(req.path)) IN req.scheme = "http" /\ h # Nil /\ h.kind = "proxy"

\* Sites whose trees of files lie apart from the other patterns, where the page that
\* a kick leads to is the proxy's, and whose file transport is not asked for a
\* directory by a name that ends in a dot.
OrderlySite ==
    /\ \A k \in DOMAIN Handlers :
          Handlers[k].kind = "files" =>
            /\ k.slash /\ Handlers[k].prefix = k.segs
            /\ \A j \in DOMAIN Handlers : IsPrefix(k.segs, j.segs) => j = k
    /\ ToProxy([scheme |-> "http", path |-> Path(<<"admin">>, FALSE)])
    /\ \A ask \in Gets :
          ask.scheme = "file" /\ ask.path.slash /\ ask.path.segs # <<>> =>
            Last(ask.path.segs) \notin {"", ".", ".."}

\* While files stay as they are, redirects of the file server (to add a slash, to
\* drop one, to hide index.html) and of the mux lead a caller to what it asked for,
\* within the limit on redirects, and to nothing else.
RedirectsKeepTarget ==
    LET d == Denoted(files, LocalPath(client.ask))
    IN client.at = "done" /\ client.steady =>
         /\ ToFiles(client.ask) =>
              IF d = Nil THEN client.reply.page = "not found"
              ELSE \/ client.reply.page \in {"content", "listing"} /\ client.reply.file = d
                   \/ client.reply.page \in {"not modified", "bad range"}
         /\ ToProxy(client.ask) => client.reply.page \notin {"content", "listing", "error"}

\* The bytes a range asks for, as the grammar of the header has it.
Asked(spec, size) ==
    {k \in 0 .. size - 1 : IF spec.start = Nil THEN k >= size - spec.end
                           ELSE k >= spec.start /\ (spec.end # Nil => k <= spec.end)}

\* The numbers of a finite set, the least first.
InOrder(set) ==
    [k \in 1 .. Cardinality(set) |-> CHOOSE x \in set : Cardinality({y \in set : y < x}) = k - 1]

\* A body that is read to its end, from a file that stays as it is, is the file or
\* the ranges that were asked for, part by part, and has the length that was declared.
ContentAsAsked ==
    LET c == copy[client.num]
        spec == client.req.range
        part(i) == <<-1>> \o InOrder(Asked(spec[i], files[c.file].size))
    IN client.at = "done" /\ client.steady /\ client.reply.page = "content" /\ ~client.closed
       /\ client.req.method # "HEAD" =>
         /\ Len(c.sent) = SendSize(client.reply)
         /\ client.reply.code = 200 => c.sent = InOrder(0 .. files[c.file].size - 1)
         /\ client.reply.code = 206 /\ Len(spec) = 1 =>
              c.sent = InOrder(Asked(spec[1], files[c.file].size))
         /\ client.reply.code = 206 /\ Len(spec) > 1 =>
              c.sent = FlattenSeq([i \in DOMAIN spec |-> part(i)]) \o <<-2>>

\* 304 answers a caller only if its copy is the file as it is, or as it was in the
\* same second: Last-Modified has no more than that.
NotModifiedIsTrue ==
    client.at = "done" /\ client.reply.code = 304 =>
        /\ client.copied # Nil
        /\ client.steady =>
             files[client.copied.file].modtime \div 2 = client.copied.lastmod

\* The goroutine that writes the parts of a reply comes to its end, whether the body
\* is read, closed or never wanted (HEAD), and whatever happens to the file.
PartWriterEnds == \A g \in 1 .. MaxGets : parts[g].at = "parts" ~> parts[g].at = "exit"

\* Get returns, also where redirects lead in a circle or files change under it.
GetEnds == client.at = "send" ~> client.at = "done"
=============================================================================
