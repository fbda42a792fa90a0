-------------------------------- MODULE Cookies --------------------------------
(***************************************************************************)
(* The cookies that tornado.web keeps in a browser: the signed one that    *)
(* says who is logged in (set_secure_cookie), and the token that a form    *)
(* has to bring back (xsrf_token).  Pages of one browser ask for forms and *)
(* post them at the same time; a request takes the cookies of the moment   *)
(* it is sent along, and an answer changes those of the moment it comes.   *)
(* Meanwhile days pass, and the keys of the settings are changed.          *)
(*                                                                         *)
(* A signed value is the version it has, the secret that signed it, and    *)
(* when.  The secret of key k of a dict is k; 0 is also the secret that is *)
(* used without a dict.  Tokens are numbers: the mask and the version that *)
(* each is written with are taken off before they are compared.            *)
(***************************************************************************)
EXTENDS Integers, FiniteSets

CONSTANTS
  Page,
  Expires,       \* days a cookie stays in the browser, 30
  MaxAge,        \* days a signed value is good for, 31
  MaxTime, MaxToken   \* bounds of the clock and of the tokens

VARIABLES
  now,           \* in days
  settings,      \* cookie_secret, key_version and the version that is signed
  signed,        \* when a version or a secret last signed a value
  hasty,         \* a key went while values that it had signed were about
  session, xsrf, \* the cookies in the browser
  tokens,        \* tokens made so far
  page           \* the pages, each with a request, an answer or a form

vars == <<now, settings, signed, hasty, session, xsrf, tokens, page>>

None == [token |-> 0, expires |-> 0]
NoUser == [version |-> 0, secret |-> 0, at |-> 0]
Never == MaxTime + Expires + 1
V1 == -1        \* whatever is signed with version 1

Blank == [at |-> "blank", sent |-> None, user |-> NoUser, set |-> None, form |-> 0,
          settled |-> FALSE]

Init ==
  /\ now = 0
  /\ settings \in [dict : {FALSE}, keys : {{0}}, key : {0}, version : {1, 2}]
  /\ signed = [s \in {V1, 0, 1} |-> -Expires] /\ hasty = FALSE
  /\ session = NoUser /\ xsrf = None /\ tokens = 0
  /\ page = [p \in Page |-> Blank]

-----------------------------------------------------------------------------
(* Values *)

(* decode_signed_value: one of version 1 is checked with the secret itself, *)
(* and when that is a dict the check raises.                               *)
Decode(value) ==
  IF value = NoUser THEN "none"
  ELSE IF value.version = 1 /\ settings.dict THEN "error"
  ELSE IF value.secret \notin settings.keys THEN "none"
  ELSE IF value.at < now - MaxAge THEN "none"
  ELSE "user"

(* The browser forgets a cookie on the day it expires.                     *)
Alive(cookie) == IF cookie.expires > now THEN cookie ELSE None
LiveSession == IF session.at + Expires > now THEN session ELSE NoUser

-----------------------------------------------------------------------------
(* Pages *)

(* A page is asked for, with the cookies that there are.                   *)
Ask(p) ==
  /\ page[p].at \in {"blank", "form", "ok", "refused", "error"}
  /\ page' = [page EXCEPT ![p] =
       [Blank EXCEPT !.at = "asked", !.sent = Alive(xsrf), !.user = LiveSession,
                     !.settled = /\ Alive(xsrf) # None
                                 /\ \A q \in Page : page[q].at \in {"asked", "answered"} =>
                                                      page[q].sent # None]]
  /\ UNCHANGED <<now, settings, signed, hasty, session, xsrf, tokens>>

(* Fault for the mutants: every page makes a token. *)
TokenOfPage(p) == [token |-> tokens + 1, expires |-> Never]

(* xsrf_token: that of the cookie that came, or a new one, for as long as  *)
(* the browser runs unless somebody is logged in.                          *)
RawToken(p) ==
  IF page[p].sent # None THEN page[p].sent
  ELSE [token |-> tokens + 1,
        expires |-> IF Decode(page[p].user) = "user" THEN now + Expires ELSE Never]

(* A handler renders a form.                                               *)
Render(p) ==
  /\ page[p].at = "asked"
  /\ IF Decode(page[p].user) = "error"
     THEN page' = [page EXCEPT ![p] = [Blank EXCEPT !.at = "error"]] /\ UNCHANGED tokens
     ELSE LET token == RawToken(p)
          IN /\ token.token <= MaxToken
             /\ tokens' = IF token.token > tokens THEN token.token ELSE tokens
             /\ page' = [page EXCEPT ![p].at = "answered", ![p].user = NoUser, ![p].form = token.token,
                                     ![p].set = IF token = page[p].sent THEN None ELSE token]
  /\ UNCHANGED <<now, settings, signed, hasty, session, xsrf>>

Receive(p) ==
  /\ page[p].at = "answered"
  /\ xsrf' = IF page[p].set = None THEN xsrf ELSE page[p].set
  /\ page' = [page EXCEPT ![p].at = "form"]
  /\ UNCHANGED <<now, settings, signed, hasty, session, tokens>>

(* The form is posted, and check_xsrf_cookie compares what it brings with  *)
(* the cookie; without one, with a token that was made just now.  The post *)
(* may log the user in or out.                                             *)
Post(p) ==
  /\ page[p].at = "form"
  /\ LET good == Alive(xsrf).token = page[p].form
         fails == settings.dict /\ settings.version = 1
         key == IF settings.dict THEN settings.key ELSE 0
     IN \/ /\ ~good
           /\ page' = [page EXCEPT ![p].at = "refused"]
           /\ UNCHANGED <<session, signed>>
        \/ /\ good /\ fails
           /\ page' = [page EXCEPT ![p] = [Blank EXCEPT !.at = "error"]]
           /\ UNCHANGED <<session, signed>>
        \/ /\ good /\ ~fails
           /\ session' = [version |-> settings.version, secret |-> key, at |-> now]
           /\ signed' = IF settings.version = 1 THEN [signed EXCEPT ![V1] = now, ![key] = now]
                        ELSE [signed EXCEPT ![key] = now]
           /\ page' = [page EXCEPT ![p] = [Blank EXCEPT !.at = "ok"]]
        \/ /\ good
           /\ session' = NoUser
           /\ page' = [page EXCEPT ![p] = [Blank EXCEPT !.at = "ok"]]
           /\ UNCHANGED signed
  /\ UNCHANGED <<now, settings, hasty, xsrf, tokens>>

-----------------------------------------------------------------------------
(* The browser, the days and the operators *)

(* Closing the browser ends its pages, and the cookies without a date.     *)
CloseBrowser ==
  /\ page' = [p \in Page |-> Blank]
  /\ xsrf' = IF xsrf.expires = Never THEN None ELSE xsrf
  /\ UNCHANGED <<now, settings, signed, hasty, session, tokens>>

Day ==
  /\ now < MaxTime /\ now' = now + 1
  /\ page' = [p \in Page |-> [page[p] EXCEPT !.settled = @ /\ xsrf.expires > now']]
  /\ UNCHANGED <<settings, signed, hasty, session, xsrf, tokens>>

Recent(s) == signed[s] + Expires > now

(* The secret becomes a dict, in which key 1 signs from now on.            *)
UseKeys ==
  /\ ~settings.dict
  /\ \E keys \in {{0, 1}, {1}} :
       /\ settings' = [settings EXCEPT !.dict = TRUE, !.keys = keys, !.key = 1]
       /\ hasty' = (hasty \/ Recent(V1) \/ (0 \notin keys /\ Recent(0)))
  /\ UNCHANGED <<now, signed, session, xsrf, tokens, page>>

DropKey ==
  /\ settings.dict /\ 0 \in settings.keys
  /\ settings' = [settings EXCEPT !.keys = {1}]
  /\ hasty' = (hasty \/ Recent(0))
  /\ UNCHANGED <<now, signed, session, xsrf, tokens, page>>

SignVersion(version) ==
  /\ settings.version # version
  /\ settings' = [settings EXCEPT !.version = version]
  /\ UNCHANGED <<now, signed, hasty, session, xsrf, tokens, page>>

Next ==
  \/ \E p \in Page : Ask(p) \/ Render(p) \/ Receive(p) \/ Post(p)
  \/ CloseBrowser \/ Day \/ UseKeys \/ DropKey
  \/ \E version \in {1, 2} : SignVersion(version)

Spec == Init /\ [][Next]_vars

-----------------------------------------------------------------------------

TypeOK ==
  /\ now \in 0..MaxTime /\ settings.keys \subseteq {0, 1} /\ hasty \in BOOLEAN
  /\ session.at \in 0..MaxTime /\ xsrf.token \in 0..tokens /\ tokens \in 0..MaxToken
  /\ \A p \in Page :
       /\ page[p].at \in {"blank", "asked", "answered", "form", "ok", "refused", "error"}
       /\ page[p].form \in 0..tokens

(* Once the browser has a token and no request is on its way without it,   *)
(* every form that is asked for is accepted, however many pages are open,  *)
(* until the cookie expires (xsrf_token and check_xsrf_cookie, web.py      *)
(* 1213-1350).                                                             *)
SettledAccepted ==
  \A p \in Page : page[p].at = "refused" => ~page[p].settled

(* Whoever is logged in stays so as long as the browser keeps the cookie,  *)
(* while keys are added, used and dropped, if a key is dropped no sooner   *)
(* than the last cookie that it signed has expired, and the secret becomes *)
(* a dict no sooner than the last one of version 1 has (decode_signed_value, *)
(* web.py 3183-3283).                                                      *)
StaysLoggedIn == ~hasty /\ LiveSession # NoUser => Decode(LiveSession) = "user"

(* The cookies do what forms and logins need. *)
CookiesSound == SettledAccepted /\ StaysLoggedIn
=============================================================================
