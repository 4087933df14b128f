------------------------------- MODULE Access -------------------------------
(***************************************************************************)
(* Which page of the proxy a request gets: mainHandler, the check of the   *)
(* login in front of every handler, and the replies of the handlers that   *)
(* only look at the request.  What adminHandler and metadataHandler do to  *)
(* the proxy is in modules AdminPages and MetadataPath.                    *)
(*                                                                         *)
(* Credentials are Nil where the header is missing or ParseDigest cannot   *)
(* make sense of it, and otherwise a name and a password, which may itself *)
(* be a name and a password with a bar between them.                       *)
(***************************************************************************)
EXTENDS Mux

CONSTANTS
    Users,            \* the table of users: names to passwords and privileges
    Authentication,   \* config.Authentication
    AdminNames        \* first segments that begin with "admin"

PERM_NONE == 0
PERM_META == 1
PERM_SOURCE == 2
PERM_ADMIN == 3

NewPermission(perm) ==
    CASE perm \in {4, 5} -> PERM_ADMIN [] perm \in {2, 3} -> PERM_SOURCE [] OTHER -> PERM_NONE

\* The credentials after Login has looked for a name in the password of "source".
SourceName(creds) ==
    IF creds.name = "source" /\ creds.inner # Nil
    THEN [creds EXCEPT !.name = creds.inner, !.inner = Nil] ELSE creds

\* Login, LoginClient and FetchUser: the permission, or Nil for a rejected login; up
\* says whether the database answers.
Login(creds, up) ==
    LET c == SourceName(creds) IN
    IF ~Authentication THEN PERM_ADMIN
    ELSE IF up /\ c.name \in DOMAIN Users /\ c.inner = Nil /\ Users[c.name].pass = c.pass
         THEN NewPermission(Users[c.name].privileges) ELSE Nil

\* makeAuthHandler: whether the handler behind it is called.
Allowed(creds, perm, up) ==
    /\ creds # Nil
    /\ Login(creds, up) # Nil /\ Login(creds, up) >= perm

AuthenticationError == Reply(401, "unauthorized", Nil)

makeAuthHandler(reply, perm, req, up) ==
    IF Allowed(req.creds, perm, up) THEN reply ELSE AuthenticationError

adminHandler(p) ==
    CASE p = Path(<<"admin">>, FALSE) -> Reply(200, "admin", Nil)
      [] p = Path(<<"admin", "kick">>, FALSE) -> Reply(301, "redirect", Ref(TRUE, <<"admin">>, FALSE))
      [] OTHER -> Reply(200, "empty", Nil)

mainHandler(req, up) ==
    LET p == req.path IN
    CASE req.method = "SOURCE" ->
           makeAuthHandler(Reply(200, "source", Nil), PERM_SOURCE, req, up)
      [] req.method = "GET" /\ p = Path(<<"admin", "metadata">>, FALSE) ->
           makeAuthHandler(Reply(200, "metadata", Nil), PERM_META, req, up)
      [] req.method = "GET" /\ p = Path(<<"admin", "listclients">>, FALSE) ->
           makeAuthHandler(Reply(200, "listclients", Nil), PERM_SOURCE, req, up)
      [] /\ req.method = "GET" /\ p.segs # <<>> /\ Head(p.segs) \in AdminNames
         /\ p \notin {Path(<<"admin", "metadata">>, FALSE), Path(<<"admin", "listclients">>, FALSE)} ->
           makeAuthHandler(adminHandler(p), PERM_ADMIN, req, up)
      [] req.method = "GET" /\ (p.segs = <<>> \/ Head(p.segs) \notin AdminNames) -> NotFound
      [] OTHER -> Reply(200, "empty", Nil)
=============================================================================
