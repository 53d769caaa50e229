---------------------------- MODULE RequestGuard ----------------------------
(***************************************************************************)
(* Which requests the web interface answers: the checks of ot_scout/bind.py *)
(* and Handler._permitted of ot_scout/web.py, over the launches of the     *)
(* program. Every launch has a token of its own, here its number; the      *)
(* browser keeps a cookie across launches, and a tab keeps the page it     *)
(* loaded, with the token in it.                                           *)
(***************************************************************************)
EXTENDS Naturals

CONSTANTS
  Bind,           \* the name of the address the server is bound to
  Wildcards,      \* addresses that stand for any (WILDCARD_BINDS)
  Extra,          \* names given with --allowed-host
  OtherNames,     \* names that also lead to this machine
  MaxLaunches     \* bound on the launches

ASSUME GuardAssumption == MaxLaunches \in Nat \ {0}

VARIABLES
  launch,     \* the token of the running launch
  jar,        \* the token in the browser's cookie, 0 if there is none
  tab         \* the token in the page that the assessor has open, 0 if none

guardVars == <<launch, jar, tab>>

Loopback == {"127.0.0.1", "localhost", "[::1]", "::1"}

\* allowed_hosts.
Allowed == Loopback \cup Extra \cup ({Bind} \ Wildcards)

\* A Host header: a name as it was typed, perhaps with a final dot and a port.
\* bare_host drops the port, and the dot only when no port follows it.
bare_host(h) == IF h.dot /\ h.port THEN <<h.name, ".">> ELSE <<h.name>>
host_header_ok(h) == \E n \in Allowed : bare_host(h) = <<n>>

Typed(n, dot, port) == [name |-> n, dot |-> dot, port |-> port]
AsPrinted(n) == Typed(n, FALSE, TRUE)

\* An Origin is one too; "none" is no Origin (no browser), "null" an opaque one.
origin_ok(o) == o # "null" /\ (o = "none" \/ host_header_ok(AsPrinted(o)))

token_ok(presented, launched) == presented # 0 /\ presented = launched

\* A request is [by, method, host, origin, header, cookie, query]: the last three
\* are the tokens it carries. The pages are not asked for by POST.
PostTokenOrCookie(r, l) == token_ok(r.header, l) \/ token_ok(r.cookie, l)
PostToken(r, l) == token_ok(r.header, l)

\* Whether launch l answers it.
Permitted(r, l) ==
  /\ host_header_ok(r.host)
  /\ CASE r.method = "POST" -> origin_ok(r.origin) /\ PostToken(r, l)
       [] r.method = "page" -> IF r.query # 0 THEN token_ok(r.query, l)
                               ELSE token_ok(r.cookie, l) \/ token_ok(r.header, l)
       [] r.method = "api"  -> token_ok(r.cookie, l) \/ token_ok(r.header, l)

----------------------------------------------------------------------------
(* Who sends requests, and what a browser adds to them.                    *)

Names == Allowed \cup OtherNames
Methods == {"POST", "page", "api"}

Request(by, m, host, origin, header, cookie) ==
  [by |-> by, method |-> m, host |-> host, origin |-> origin,
   header |-> header, cookie |-> cookie, query |-> 0]

\* The open page: its script adds the header, the browser the rest.
PageRequests(j, t) ==
  {Request("page", m, AsPrinted(n), n, t, j) : m \in Methods, n \in Allowed}

\* A program that was told a token, or none, and names the server as it likes.
ToolRequests(l) ==
  {Request("tool", m, Typed(n, d, p), "none", t, 0) :
     m \in Methods, n \in Names, d \in BOOLEAN, p \in BOOLEAN, t \in 0..l}

\* A page of another server: on another port of this machine the browser takes it
\* for the same site and adds the cookie.
OtherPageRequests(j) ==
  {Request("stranger", m, AsPrinted(n), o, 0, c) :
     m \in Methods, n \in Names, o \in Names \cup {"null"}, c \in {0, j}}

\* The requests that change something and are answered, by launch, cookie and page.
Writes ==
  [l \in 1..MaxLaunches |-> [j \in 0..MaxLaunches |-> [t \in 0..MaxLaunches |->
     {r \in PageRequests(j, t) \cup ToolRequests(l) \cup OtherPageRequests(j) :
        r.method = "POST" /\ Permitted(r, l)}]]]

WritesBy(by) == {r \in Writes[launch][jar][tab] : r.by = by}

----------------------------------------------------------------------------
GuardInit == launch = 1 /\ jar = 0 /\ tab = 0

\* The assessor opens the URL that a launch has printed. The page is sent on this
\* response with the cookie; a refusal leaves what the browser has.
OpenUrl(n) ==
  /\ n \in 1..launch
  /\ Permitted([Request("page", "page", AsPrinted("127.0.0.1"), "none", 0, jar)
                  EXCEPT !.query = n], launch)
  /\ jar' = launch
  /\ tab' = launch
  /\ UNCHANGED launch

\* The page is loaded again, without the token in the address.
Reload ==
  /\ Permitted(Request("page", "page", AsPrinted("127.0.0.1"), "none", 0, jar), launch)
  /\ tab' = launch
  /\ UNCHANGED <<launch, jar>>

\* The program ends and is started again: a new token, the same browser.
Relaunched ==
  /\ launch < MaxLaunches
  /\ launch' = launch + 1
  /\ UNCHANGED <<jar, tab>>
=============================================================================
