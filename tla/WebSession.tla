---------------------------- MODULE WebSession -----------------------------
(***************************************************************************)
(* web/app.py and web/csrf.py: the login with its throttle, the sessions   *)
(* that a logout revokes by a new generation, and the forms that belong to *)
(* a session. The handlers are coroutines of one event loop: what one does *)
(* between two awaits is a step. An edit comes with its body read and runs *)
(* to its end; a logout and a listing of zones wait for their body after   *)
(* the session has been checked, and a listing waits for Cloudflare too.   *)
(*                                                                         *)
(* generation, sessions and failures are of one process. Session ids stand *)
(* for signed tokens (jti), a form for its CSRF value, which token_for     *)
(* derives from the token of the session. Time passes in ticks.            *)
(***************************************************************************)
EXTENDS RegistryEdits, Integers, Sequences

CONSTANTS
  Browsers, Ids, Clients,  \* browsers, tokens that can be minted, client addresses
  Expiry,       \* access_token_expire_minutes, in ticks
  MaxFailures,  \* _MAX_LOGIN_FAILURES
  Lockout,      \* _LOCKOUT_SECONDS, in ticks
  Guessers,     \* bound: the clients that give wrong credentials
  MaxRequests,  \* bound: requests in flight
  MaxRestarts   \* bound: how often the process restarts

ASSUME WebAssumption ==
  /\ None \notin Ids /\ Guessers \subseteq Clients
  /\ MaxFailures \in Nat \ {0} /\ {Expiry, Lockout, MaxRequests, MaxRestarts} \subseteq Nat

VARIABLES
  generation, \* app.state.session_generation
  failures,   \* app.state.login_failures[ip]: [count, age of the last one]
  token,      \* token[i]: the generation in token i, and its age
  jar,        \* jar[b]: the session cookie of a browser, or None
  pages,      \* pages[b]: the forms a browser has open
  requests,   \* the requests being handled
  table,      \* the host table (or that of the interface groups)
  event,      \* what the last step found of a session
  fate,       \* fate[i]: none, open, revoked, or of an earlier process (history)
  out,        \* whether nobody has logged in since a logout            (history)
  guesses,    \* guesses[ip]: the ages of the last failures in a row    (history)
  restarts    \* restarts left

throttle == <<failures, guesses>>
sessions == <<generation, token, fate, out>>
vars == <<throttle, sessions, jar, pages, requests, table, event, restarts>>

Later(n, bound) == IF n > bound THEN n ELSE n + 1
NoFailures == [count |-> 0, age |-> 0]
NoEvent == [what |-> "none", session |-> None]

Kinds == {"edit", "logout", "zones"}

---------------------------------------------------------------------------
(* The throttle. *)

AtLimit(ip) == failures[ip].count >= MaxFailures

\* Bug: the lockout is over too early.
BugLockedOut(ip) == AtLimit(ip) /\ failures[ip].age < Lockout
LockedOut(ip) == AtLimit(ip) /\ failures[ip].age <= Lockout

\* Bug: the entry of a lockout that is over stays.
BugLeftOver(ip) == failures[ip]
\* _locked_out deletes the entry of a lockout that is over.
LeftOver(ip) == IF AtLimit(ip) THEN NoFailures ELSE failures[ip]

\* Bug: an attempt during a lockout starts the lockout again.
BugTurnAway(ip) == failures' = [failures EXCEPT ![ip].age = 0]
TurnAway(ip) == UNCHANGED failures

\* Only the last MaxFailures + 1 guesses matter.
Recent(s) == IF Len(s) > MaxFailures + 1 THEN Tail(s) ELSE s

\* login_post with wrong credentials: 429 while locked out, else a failure more.
Guess(ip) ==
  /\ IF LockedOut(ip)
     THEN TurnAway(ip) /\ UNCHANGED guesses
     ELSE /\ failures' = [failures EXCEPT ![ip] = [count |-> LeftOver(ip).count + 1, age |-> 0]]
          /\ guesses' = [guesses EXCEPT ![ip] = Recent(Append(@, 0))]
  /\ event' = NoEvent
  /\ UNCHANGED <<sessions, jar, pages, requests, table, restarts>>

---------------------------------------------------------------------------
(* Sessions. *)

\* Bug: the generation of a token is not compared.
BugValid(i) == i # None /\ token[i].age < Expiry
\* get_current_user.
Valid(i) == i # None /\ token[i].age < Expiry /\ token[i].gen = generation

Judge(i) == event' = [what |-> IF Valid(i) THEN "accepted" ELSE "rejected", session |-> i]

\* login_post with the right ones: the failures are forgotten and a token is
\* minted. The answer may be lost on its way to the browser.
Login(b, ip) ==
  /\ ~LockedOut(ip)
  /\ failures' = [failures EXCEPT ![ip] = NoFailures]
  /\ guesses' = [guesses EXCEPT ![ip] = <<>>]
  /\ \E i \in {i \in Ids : fate[i] = "none"} :
       /\ token' = [token EXCEPT ![i] = [gen |-> generation, age |-> 0]]
       /\ fate' = [fate EXCEPT ![i] = "open"]
       /\ jar' \in {jar, [jar EXCEPT ![b] = i]}
  /\ out' = FALSE /\ event' = NoEvent
  /\ UNCHANGED <<generation, pages, requests, table, restarts>>

\* index and wizard: a page whose forms belong to the session of the request.
View(b) ==
  /\ Judge(jar[b])
  /\ pages' = IF Valid(jar[b]) THEN [pages EXCEPT ![b] = @ \cup {jar[b]}] ELSE pages
  /\ UNCHANGED <<throttle, sessions, jar, requests, table, restarts>>

Close(b) ==
  /\ \E i \in pages[b] : pages' = [pages EXCEPT ![b] = @ \ {i}]
  /\ event' = NoEvent
  /\ UNCHANGED <<throttle, sessions, jar, requests, table, restarts>>

---------------------------------------------------------------------------
(* Forms. A request has the cookie and the form of when it was sent. *)

Submit(b) ==
  /\ Cardinality(requests) < MaxRequests
  /\ \E kind \in Kinds, form \in pages[b] :
       requests' = requests \cup
         {[kind |-> kind, stage |-> "sent", from |-> b, cookie |-> jar[b], form |-> form]}
  /\ event' = NoEvent
  /\ UNCHANGED <<throttle, sessions, jar, pages, table, restarts>>

\* require_match: the form was rendered for the session that sends it.
Matches(r) == r.cookie # None /\ r.form = r.cookie

Goes(r, rs) == requests' = rs \cup (requests \ {r})

WebEdits == {e \in Edits : e.kind \in {"add", "bulk", "remove", "register"}}

\* add_host, add_hosts_bulk, delete_host and register_group. An edit that the
\* store refuses is answered 409 or 404 (or skipped by the bulk).
MakeEdit ==
  /\ \E e \in WebEdits : table' = IF Saves(e, table) THEN Edited(e, table) ELSE table
  /\ UNCHANGED <<sessions, jar>>

\* logout: a new generation; the browser that asked drops its cookie.
EndSessions(b) ==
  /\ generation' = generation + 1 /\ out' = \A i \in Ids : fate[i] # "foreign"
  /\ fate' = [i \in Ids |-> IF fate[i] = "open" THEN "revoked" ELSE fate[i]]
  /\ jar' \in {jar, [jar EXCEPT ![b] = None]}
  /\ UNCHANGED <<token, table>>

\* Both checks have passed.
Effect(r) ==
  \/ r.kind = "edit" /\ MakeEdit /\ Goes(r, {})
  \/ r.kind = "logout" /\ EndSessions(r.from) /\ Goes(r, {})
  \/ r.kind = "zones" /\ UNCHANGED <<sessions, jar, table>> /\ Goes(r, {[r EXCEPT !.stage = "listing"]})

Refuse(r) == UNCHANGED <<sessions, jar, table>> /\ Goes(r, {})

\* Bug: an edit waits for its body between the check and the deed.
BugAtOnce == {}
\* FastAPI reads the body first where the handler declares form fields.
AtOnce == {"edit"}

Handle(r) ==
  /\ r.stage = "sent" /\ r.kind \in AtOnce
  /\ Judge(r.cookie)
  /\ IF Valid(r.cookie) /\ Matches(r) THEN Effect(r) ELSE Refuse(r)
  /\ UNCHANGED <<throttle, pages, restarts>>

Admit(r) ==
  /\ r.stage = "sent" /\ r.kind \notin AtOnce
  /\ Judge(r.cookie)
  /\ Goes(r, IF Valid(r.cookie) THEN {[r EXCEPT !.stage = "admitted"]} ELSE {})
  /\ UNCHANGED <<throttle, sessions, jar, pages, table, restarts>>

Match(r) ==
  /\ r.stage = "admitted"
  /\ IF Matches(r) THEN Effect(r) ELSE Refuse(r)
  /\ event' = NoEvent
  /\ UNCHANGED <<throttle, pages, restarts>>

\* wizard_zones: Cloudflare answers, or fails; the client made for it is closed.
Render(r) ==
  /\ r.stage = "listing"
  /\ pages' \in {pages, [pages EXCEPT ![r.from] = @ \cup {r.cookie}]}
  /\ Goes(r, {}) /\ event' = NoEvent
  /\ UNCHANGED <<throttle, sessions, jar, table, restarts>>

Serve == \E r \in requests : Handle(r) \/ Admit(r) \/ Match(r) \/ Render(r)

---------------------------------------------------------------------------
(* Time and restarts. *)

\* A cookie lives as long as its token.
Tick ==
  /\ failures' = [ip \in Clients |-> IF failures[ip].count = 0 THEN NoFailures
                                     ELSE [failures[ip] EXCEPT !.age = Later(@, Lockout)]]
  /\ guesses' = [ip \in Clients |-> [n \in DOMAIN guesses[ip] |-> Later(guesses[ip][n], Lockout)]]
  /\ token' = [i \in Ids |-> IF fate[i] = "none" THEN token[i]
                             ELSE [token[i] EXCEPT !.age = IF @ < Expiry THEN @ + 1 ELSE @]]
  /\ event' = NoEvent
  /\ UNCHANGED <<generation, fate, out, jar, pages, requests, table, restarts>>

\* The process forgets generation and failures; browsers keep their cookies.
Restart ==
  /\ restarts > 0 /\ restarts' = restarts - 1
  /\ generation' = 0 /\ out' = FALSE
  /\ failures' = [ip \in Clients |-> NoFailures] /\ guesses' = [ip \in Clients |-> <<>>]
  /\ fate' = [i \in Ids |-> IF fate[i] = "none" THEN "none" ELSE "foreign"]
  /\ requests' = {} /\ event' = NoEvent
  /\ UNCHANGED <<token, jar, pages, table>>

Init ==
  /\ generation = 0 /\ out = FALSE /\ restarts = MaxRestarts
  /\ failures = [ip \in Clients |-> NoFailures] /\ guesses = [ip \in Clients |-> <<>>]
  /\ token = [i \in Ids |-> [gen |-> 0, age |-> 0]] /\ fate = [i \in Ids |-> "none"]
  /\ jar = [b \in Browsers |-> None] /\ pages = [b \in Browsers |-> {}]
  /\ requests = {} /\ table \in Tables /\ event = NoEvent

Next ==
  \/ \E ip \in Guessers : Guess(ip)
  \/ \E b \in Browsers, ip \in Clients : Login(b, ip)
  \/ \E b \in Browsers : View(b) \/ Close(b) \/ Submit(b)
  \/ Serve \/ Tick \/ Restart

\* Time goes on. Nobody has to ask for anything.
Spec == Init /\ [][Next]_vars /\ WF_vars(Tick)

---------------------------------------------------------------------------
(* Properties. *)

\* Every variable keeps its type; in particular a client that keeps guessing
\* never has more failures on its account than the limit.
TypeOK ==
  /\ generation \in Nat /\ out \in BOOLEAN /\ restarts \in 0 .. MaxRestarts
  /\ failures \in [Clients -> [count : 0 .. MaxFailures, age : 0 .. Lockout + 1]]
  /\ token \in [Ids -> [gen : Nat, age : 0 .. Expiry]]
  /\ fate \in [Ids -> {"none", "open", "revoked", "foreign"}]
  /\ jar \in [Browsers -> Ids \cup {None}] /\ pages \in [Browsers -> SUBSET (Ids \cup {None})]
  /\ requests \subseteq [kind : Kinds, stage : {"sent", "admitted", "listing"},
                         from : Browsers, cookie : Ids \cup {None}, form : Ids \cup {None}]
  /\ table \subseteq Entries

\* README.md:42: "logout invalidates all outstanding sessions", and nothing
\* else does but their age: of the tokens that this process minted, those are
\* accepted, and only those, that are young and older than no logout,
\* whatever requests are under way.
SessionsHoldUntilLogout ==
  LET i == event.session
  IN  /\ event.what = "accepted" /\ fate[i] # "foreign" => fate[i] = "open"
      /\ event.what = "rejected" /\ i # None /\ fate[i] = "open" => token[i].age = Expiry

\* Between a logout and the next login nothing is edited over the web, not by
\* a request that was sent before, nor from a page that is still open. (Tokens
\* of an earlier process are left out: its generations are counted anew.)
NoEditAfterLogout == [][table' # table => ~out]_vars

\* Any MaxFailures + 1 failures in a row from one address take longer than the
\* lockout, however they are timed.
GuessesAreSlow ==
  \A ip \in Clients : LET g == guesses[ip] IN Len(g) > MaxFailures /\ g[Len(g)] = 0 => g[1] > Lockout

\* A lockout ends, even for a client that goes on trying.
LockoutsEnd == \A ip \in Clients : LockedOut(ip) ~> ~LockedOut(ip)
=============================================================================
