---------------------------- MODULE RedirectUri ----------------------------
(***************************************************************************)
(* validateRedirectUri and redirectUriMatches of services/redirectUri.ts.  *)
(* A URI is what `new URL` makes of it: `rest` is its path and query,      *)
(* `port` is "" for the default port of its scheme, `userinfo` is "" or a  *)
(* user name and password.  Two URIs that differ in spelling only are one. *)
(***************************************************************************)
EXTENDS FiniteSets

CONSTANTS
    LoopbackHosts,      \* localhost, [::1] and 127.0.0.0/8
    DangerousSchemes    \* DANGEROUS_SCHEMES

IsLoopback(uri) == uri.host \in LoopbackHosts

\* Fault: http is accepted like https.
Acceptable_HttpAnywhere(uri) ==
    /\ uri.userinfo = ""
    /\ uri.scheme \notin DangerousSchemes

\* validateRedirectUri returns null: private-use schemes are fine, cleartext is
\* for loopback hosts.
Acceptable(uri) ==
    /\ uri.userinfo = ""
    /\ uri.scheme \notin DangerousSchemes
    /\ uri.scheme = "http" => IsLoopback(uri)

\* Fault: the scheme is not compared.
Matches_AnyScheme(registered, requested) ==
    /\ registered.host = requested.host
    /\ registered.rest = requested.rest
    /\ registered.userinfo = requested.userinfo
    /\ IsLoopback(registered) \/ registered.port = requested.port

\* redirectUriMatches: a loopback host may be asked for with any port, since
\* native clients bind an ephemeral one; fragments are not compared.
Matches(registered, requested) ==
    \/ registered = requested
    \/ /\ registered.scheme = requested.scheme
       /\ registered.host = requested.host
       /\ registered.rest = requested.rest
       /\ registered.userinfo = requested.userinfo
       /\ IsLoopback(registered) \/ registered.port = requested.port
=============================================================================
