-------------------------------- MODULE Mux ---------------------------------
(***************************************************************************)
(* ServeMux, StripPrefix and Redirect.                                     *)
(*                                                                         *)
(* A path is the sequence of its segments and whether a slash ends it; ".",*)
(* ".." and "" are segments like others until the path is cleaned.  A      *)
(* pattern is a path behind a host, or behind AnyHost.  A Location is a    *)
(* path from the root or relative to the request.                          *)
(***************************************************************************)
EXTENDS Integers, Sequences, SequencesExt

CONSTANTS AnyHost, Nil

Path(segs, slash) == [segs |-> segs, slash |-> slash]
Root == Path(<<>>, TRUE)
Ref(abs, segs, slash) == [abs |-> abs, segs |-> segs, slash |-> slash]

-----------------------------------------------------------------------------
(***************************************************************************)
(* Packages path and net/url.                                              *)
(***************************************************************************)
CleanStep(done, seg) ==
    IF seg \in {"", "."} THEN done
    ELSE IF seg # ".." THEN Append(done, seg)
    ELSE IF done = <<>> THEN done ELSE Front(done)

Clean(segs) ==
    LET upto[i \in 0 .. Len(segs)] == IF i = 0 THEN <<>> ELSE CleanStep(upto[i - 1], segs[i])
    IN upto[Len(segs)]

\* path.Split: the directory of a path; path.Base: its last segment (which is not
\* empty in a path that the mux has cleaned).
Dir(p)  == IF p.slash \/ p.segs = <<>> THEN p.segs ELSE Front(p.segs)
Base(p) == Last(p.segs)

\* URL.Parse of a Location at the URL of the request.
Resolve(p, ref) ==
    LET segs == Clean(IF ref.abs THEN ref.segs ELSE Dir(p) \o ref.segs)
    IN Path(segs, ref.slash \/ segs = <<>>)

-----------------------------------------------------------------------------
(***************************************************************************)
(* Replies.                                                                *)
(***************************************************************************)
Reply(code, page, location) ==
    [code |-> code, page |-> page, location |-> location, lastmod |-> Nil,
     file |-> Nil, ranges |-> <<>>, multi |-> FALSE]

NotFound == Reply(404, "not found", Nil)

\* A relative URL is put behind the directory of the request; what comes out is
\* cleaned, and a slash at its end is kept.
Redirect(p, ref, code) ==
    LET segs == Clean(IF ref.abs THEN ref.segs ELSE Dir(p) \o ref.segs)
    IN Reply(code, "redirect", Ref(TRUE, segs, ref.slash \/ segs = <<>>))

-----------------------------------------------------------------------------
(***************************************************************************)
(* ServeMux.  The map m sends patterns to entries; entry.h is a handler.   *)
(***************************************************************************)
Pattern(host, segs, slash) == [host |-> host, segs |-> segs, slash |-> slash]

pathMatch(pattern, host, p) ==
    /\ pattern.host = host
    /\ \/ ~pattern.slash /\ pattern.segs = p.segs /\ ~p.slash
       \/ /\ pattern.slash /\ IsPrefix(pattern.segs, p.segs)
          /\ Len(p.segs) > Len(pattern.segs) \/ p.slash

cleanPath(p) ==
    LET segs == Clean(p.segs) IN Path(segs, p.slash \/ segs = <<>>)

\* Patterns that match one path differ in the number of segments, or one ends in a
\* slash and the other does not.
PatternLen(pattern) == 2 * Len(pattern.segs) + (IF pattern.slash THEN 1 ELSE 0)

match(m, host, p) ==
    LET found == {k \in DOMAIN m : pathMatch(k, host, p)} IN
    IF found = {} THEN Nil
    ELSE m[CHOOSE k \in found : \A j \in found : PatternLen(j) <= PatternLen(k)].h

handler(m, host, p) ==
    LET specific == match(m, host, p) IN
    IF specific # Nil THEN specific ELSE match(m, AnyHost, p)

\* The handler of an implicit entry: the pattern as the target of a redirect.  With a
\* host in front the target is a relative URL.
RedirectHandler(pattern) ==
    [kind |-> "redirect", code |-> 301, prefix |-> <<>>,
     to |-> IF pattern.host = AnyHost THEN Ref(TRUE, pattern.segs, pattern.slash)
            ELSE Ref(FALSE, <<pattern.host>> \o pattern.segs, pattern.slash)]

\* The reply to a path that is not clean, and a file server, as handlers.
Cleaner(p) == [kind |-> "redirect", code |-> 301, prefix |-> <<>>, to |-> Ref(TRUE, p.segs, p.slash)]
FilesAt(prefix) == [kind |-> "files", code |-> 200, prefix |-> prefix, to |-> Nil]

\* A variant that overwrites an explicit entry by an implicit one.
HandleOverriding(m, pattern, h) ==
    LET tree == [pattern EXCEPT !.slash = FALSE]
        keys == DOMAIN m \cup {pattern} \cup (IF pattern.slash THEN {tree} ELSE {})
    IN [k \in keys |->
          IF k = pattern THEN [explicit |-> TRUE, h |-> h]
          ELSE IF pattern.slash /\ k = tree THEN [explicit |-> FALSE, h |-> RedirectHandler(pattern)]
          ELSE m[k]]

\* The map after Handle(pattern, h), where it does not panic.
Handle(m, pattern, h) ==
    LET tree     == [pattern EXCEPT !.slash = FALSE]
        implicit == pattern.slash /\ ~(tree \in DOMAIN m /\ m[tree].explicit)
        keys     == DOMAIN m \cup {pattern} \cup (IF implicit THEN {tree} ELSE {})
    IN [k \in keys |->
          IF k = pattern THEN [explicit |-> TRUE, h |-> h]
          ELSE IF implicit /\ k = tree THEN [explicit |-> FALSE, h |-> RedirectHandler(pattern)]
          ELSE m[k]]

\* Where Handle panics: the pattern has its handler already.
AlreadyHandled(m, pattern) == pattern \in DOMAIN m /\ m[pattern].explicit

\* StripPrefix: the path behind the prefix, or Nil.
StripPrefix(prefix, p) ==
    IF IsPrefix(prefix, p.segs) THEN Path(SubSeq(p.segs, Len(prefix) + 1, Len(p.segs)), p.slash)
    ELSE Nil
=============================================================================
