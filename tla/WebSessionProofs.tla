-------------------------- MODULE WebSessionProofs --------------------------
(***************************************************************************)
(* For any number of browsers, tokens and requests: a logout ends every    *)
(* session, nothing is edited between it and the next login, and no client *)
(* guesses faster than the limit allows. The first two rest on generations:*)
(* the open sessions have the present one, the revoked ones an older one,  *)
(* and whatever cookie is somewhere was minted. The last rests on the ages *)
(* of the failures that are no longer counted.                             *)
(***************************************************************************)
EXTENDS WebSession, TLAPS, SequenceTheorems

\* An edit of a table is a table.
LEMMA EditedIsTable ==
  ASSUME NEW e \in Edits, NEW rows \in Tables
  PROVE  Edited(e, rows) \in Tables
<1>1. ASSUME NEW keys \in SUBSET Keys, e.to \in Values
      PROVE  Added(e, keys) \in Tables
  BY <1>1 DEF Added, Tables, Entries
<1>2. Others(e, rows) \in Tables
  BY DEF Others, Tables
<1>3. e.keys \in SUBSET Keys
  BY DEF Edits, Reading
<1>4. CASE e.kind \in {"add", "bulk"}
  <2>1. e.to \in Values
    BY <1>4 DEF Edits, Reading
  <2> QED
    BY <1>1, <1>3, <1>4, <2>1 DEF Edited, Tables
<1>5. CASE e.kind = "remove"
  BY <1>2, <1>5 DEF Edited
<1>6. CASE e.kind = "register"
  <2>1. e.to \in Values
    BY <1>6 DEF Edits, Reading
  <2> QED
    BY <1>1, <1>2, <1>3, <1>6, <2>1 DEF Edited, Tables
<1>7. CASE e.kind = "reassign"
  <2>1. e.to \in Values
    BY <1>7 DEF Edits, Reading
  <2>2. \A r \in rows : [r EXCEPT !.value = IF @ = e.from THEN e.to ELSE @] \in Entries
    BY <2>1 DEF Tables, Entries
  <2> QED
    BY <1>7, <2>2 DEF Edited, Tables
<1>8. CASE e.kind = "read"
  BY <1>8 DEF Edited
<1>9. e.kind \in {"add", "register", "bulk", "remove", "reassign", "read"}
  BY DEF Edits, Reading
<1> QED
  BY <1>4, <1>5, <1>6, <1>7, <1>8, <1>9

---------------------------------------------------------------------------
(* The invariant of the sessions. *)

GenerationInv ==
  \A i \in Ids : /\ fate[i] = "open" => token[i].gen = generation
                 /\ fate[i] = "revoked" => token[i].gen < generation

\* Only minted tokens are used as cookies.
Minted(i) == i # None => fate[i] # "none"
CookieInv ==
  /\ \A b \in Browsers : Minted(jar[b])
  /\ \A b \in Browsers : \A i \in pages[b] : Minted(i)
  /\ \A r \in requests : Minted(r.cookie)

\* An edit is never caught between its two checks.
StageInv == \A r \in requests : r.kind = "edit" => r.stage = "sent"

OutInv == out => \A i \in Ids : fate[i] \notin {"open", "foreign"}

EventInv == event.session \in Ids \cup {None} /\ (event.what = "accepted" => event.session \in Ids)

---------------------------------------------------------------------------
(* Which actions change what. *)

Fates == {"none", "open", "revoked", "foreign"}
RequestType ==
  [kind : Kinds, stage : {"sent", "admitted", "listing"},
   from : Browsers, cookie : Ids \cup {None}, form : Ids \cup {None}]

\* What both checks let through ends all sessions, or leaves them and the cookies.
LEMMA EffectChanges ==
  ASSUME NEW r \in requests, Effect(r)
  PROVE  /\ (UNCHANGED <<sessions, jar>>) \/ (r.kind = "logout" /\ EndSessions(r.from))
         /\ requests' \subseteq requests \cup {[r EXCEPT !.stage = "listing"]}
         /\ r.kind # "zones" => requests' \subseteq requests
         /\ r.kind # "edit" => table' = table
  BY DEF Effect, MakeEdit, EndSessions, Goes, sessions

\* Only a login, a logout, time and a restart change the sessions.
LEMMA SessionSteps ==
  ASSUME Next, requests \subseteq RequestType
  PROVE  \/ UNCHANGED sessions
         \/ \E b \in Browsers, ip \in Clients : Login(b, ip)
         \/ \E b \in Browsers : EndSessions(b)
         \/ Tick
         \/ Restart
<1>1. CASE \E ip \in Guessers : Guess(ip)
  BY <1>1 DEF Guess
<1>2. CASE \E b \in Browsers : View(b) \/ Close(b) \/ Submit(b)
  BY <1>2 DEF View, Close, Submit
<1>3. ASSUME NEW r \in requests, Handle(r) \/ Admit(r) \/ Match(r) \/ Render(r)
      PROVE  UNCHANGED sessions \/ \E b \in Browsers : EndSessions(b)
  <2>1. r.from \in Browsers
    BY DEF RequestType
  <2>2. Effect(r) => UNCHANGED sessions \/ EndSessions(r.from)
    BY EffectChanges
  <2>3. Refuse(r) => UNCHANGED sessions
    BY DEF Refuse
  <2> QED
    BY <1>3, <2>1, <2>2, <2>3 DEF Handle, Admit, Match, Render
<1> QED
  BY <1>1, <1>2, <1>3 DEF Next, Serve

\* A cookie changes by a login, which mints it, or is dropped.
LEMMA JarSteps ==
  ASSUME Next, requests \subseteq RequestType, jar \in [Browsers -> Ids \cup {None}],
         fate \in [Ids -> Fates], NEW b \in Browsers
  PROVE  jar'[b] \in {jar[b], None} \/ (jar'[b] \in Ids /\ fate'[jar'[b]] = "open")
<1>1. CASE \E c \in Browsers, ip \in Clients : Login(c, ip)
  <2>1. PICK c \in Browsers, ip \in Clients : Login(c, ip)
    BY <1>1
  <2>2. PICK i \in Ids : /\ fate[i] = "none" /\ fate' = [fate EXCEPT ![i] = "open"]
                         /\ jar' \in {jar, [jar EXCEPT ![c] = i]}
    BY <2>1 DEF Login
  <2> QED
    BY <2>2
<1>2. ASSUME NEW c \in Browsers, EndSessions(c)
      PROVE  jar'[b] \in {jar[b], None}
  BY <1>2 DEF EndSessions
<1>3. ASSUME NEW r \in requests, Handle(r) \/ Admit(r) \/ Match(r) \/ Render(r)
      PROVE  jar'[b] \in {jar[b], None}
  <2>1. r.from \in Browsers
    BY DEF RequestType
  <2>2. Effect(r) => UNCHANGED jar \/ EndSessions(r.from)
    BY EffectChanges
  <2>3. Refuse(r) => UNCHANGED jar
    BY DEF Refuse
  <2> QED
    BY <1>2, <1>3, <2>1, <2>2, <2>3 DEF Handle, Admit, Match, Render
<1>4. CASE \E ip \in Guessers : Guess(ip)
  BY <1>4 DEF Guess
<1>5. CASE \E c \in Browsers : View(c) \/ Close(c) \/ Submit(c)
  BY <1>5 DEF View, Close, Submit
<1>6. CASE Tick \/ Restart
  BY <1>6 DEF Tick, Restart
<1> QED
  BY <1>1, <1>3, <1>4, <1>5, <1>6 DEF Next, Serve

\* A page that is opened belongs to a cookie that was sent.
LEMMA PageSteps ==
  ASSUME Next, requests \subseteq RequestType, pages \in [Browsers -> SUBSET (Ids \cup {None})],
         NEW b \in Browsers, NEW i \in pages'[b]
  PROVE  i \in pages[b] \/ i = jar[b] \/ \E r \in requests : i = r.cookie
<1>1. CASE \E c \in Browsers, ip \in Clients : Login(c, ip)
  BY <1>1 DEF Login
<1>2. CASE \E ip \in Guessers : Guess(ip)
  BY <1>2 DEF Guess
<1>3. ASSUME NEW c \in Browsers, View(c) \/ Close(c) \/ Submit(c)
      PROVE  i \in pages[b] \/ i = jar[b]
  BY <1>3 DEF View, Close, Submit
<1>4. ASSUME NEW r \in requests, Handle(r) \/ Admit(r) \/ Match(r) \/ Render(r)
      PROVE  i \in pages[b] \/ i = r.cookie
  <2>1. r.from \in Browsers
    BY DEF RequestType
  <2> QED
    BY <1>4, <2>1 DEF Handle, Admit, Match, Render
<1>5. CASE Tick \/ Restart
  BY <1>5 DEF Tick, Restart
<1> QED
  BY <1>1, <1>2, <1>3, <1>4, <1>5 DEF Next, Serve

\* A request is new, with the cookie and a form of its browser, or was there, and
\* has perhaps gone on if it is no edit.
LEMMA RequestSteps ==
  ASSUME Next, NEW r \in requests'
  PROVE  \/ r \in requests
         \/ \E b \in Browsers : \E kind \in Kinds, form \in pages[b] :
              r = [kind |-> kind, stage |-> "sent", from |-> b, cookie |-> jar[b], form |-> form]
         \/ \E q \in requests, stage \in {"admitted", "listing"} :
              q.kind # "edit" /\ r = [q EXCEPT !.stage = stage]
<1>1. CASE \E c \in Browsers, ip \in Clients : Login(c, ip)
  BY <1>1 DEF Login
<1>2. CASE \E ip \in Guessers : Guess(ip)
  BY <1>2 DEF Guess
<1>3. CASE \E b \in Browsers : View(b) \/ Close(b) \/ Submit(b)
  BY <1>3 DEF View, Close, Submit
<1>4. ASSUME NEW q \in requests, Handle(q) \/ Admit(q) \/ Match(q) \/ Render(q), r \notin requests
      PROVE  \E stage \in {"admitted", "listing"} : q.kind # "edit" /\ r = [q EXCEPT !.stage = stage]
  <2>1. Effect(q) => q.kind # "edit" /\ r = [q EXCEPT !.stage = "listing"]
    BY <1>4 DEF Effect, Goes
  <2>2. ~Refuse(q)
    BY <1>4 DEF Refuse, Goes
  <2>3. CASE Handle(q) \/ Match(q)
    BY <2>1, <2>2, <2>3 DEF Handle, Match
  <2>4. CASE Admit(q)
    BY <1>4, <2>4 DEF Admit, AtOnce, Goes
  <2>5. CASE Render(q)
    BY <1>4, <2>5 DEF Render, Goes
  <2> QED
    BY <1>4, <2>3, <2>4, <2>5
<1>5. CASE Tick \/ Restart
  BY <1>5 DEF Tick, Restart
<1> QED
  BY <1>1, <1>2, <1>3, <1>4, <1>5 DEF Next, Serve
---------------------------------------------------------------------------
(* Types. *)

RequestTypeOK == requests \subseteq RequestType
TokenTypeOK ==
  /\ generation \in Nat /\ out \in BOOLEAN
  /\ token \in [Ids -> [gen : Nat, age : 0 .. Expiry]] /\ fate \in [Ids -> Fates]
BrowserTypeOK == jar \in [Browsers -> Ids \cup {None}] /\ pages \in [Browsers -> SUBSET (Ids \cup {None})]
ThrottleTypeOK == failures \in [Clients -> [count : 0 .. MaxFailures, age : 0 .. Lockout + 1]]

\* The type invariant by the part of the state it is about.
LEMMA TypeParts ==
  TypeOK <=> /\ TokenTypeOK /\ ThrottleTypeOK /\ BrowserTypeOK /\ RequestTypeOK
             /\ restarts \in 0 .. MaxRestarts /\ table \subseteq Entries
  BY DEF TypeOK, TokenTypeOK, ThrottleTypeOK, BrowserTypeOK, RequestTypeOK, RequestType, Fates

\* Tokens stay tokens,
LEMMA TokenTypes ==
  ASSUME Next, TokenTypeOK, RequestTypeOK
  PROVE  TokenTypeOK'
<1>1. CASE UNCHANGED sessions
  BY <1>1 DEF sessions, TokenTypeOK
<1>2. CASE \E b \in Browsers, ip \in Clients : Login(b, ip)
  <2>1. PICK i \in Ids : token' = [token EXCEPT ![i] = [gen |-> generation, age |-> 0]]
    BY <1>2 DEF Login
  <2>2. fate' \in [Ids -> Fates] /\ out' \in BOOLEAN /\ generation' = generation
    BY <1>2 DEF Login, TokenTypeOK, Fates
  <2>3. [gen |-> generation, age |-> 0] \in [gen : Nat, age : 0 .. Expiry]
    BY WebAssumption DEF TokenTypeOK
  <2>4. token' \in [Ids -> [gen : Nat, age : 0 .. Expiry]]
    BY <2>1, <2>3 DEF TokenTypeOK
  <2> QED
    BY <2>2, <2>4 DEF TokenTypeOK
<1>3. CASE \E b \in Browsers : EndSessions(b)
  <2>1. fate' \in [Ids -> Fates]
    BY <1>3 DEF EndSessions, TokenTypeOK, Fates
  <2> QED
    BY <1>3, <2>1 DEF EndSessions, TokenTypeOK
<1>4. CASE Tick
  <2>1. ASSUME NEW i \in Ids
        PROVE  /\ token'[i].gen = token[i].gen /\ token'[i] \in [gen : Nat, age : 0 .. Expiry]
    <3>1. token'[i] = IF fate[i] = "none" THEN token[i]
                      ELSE [token[i] EXCEPT !.age = IF @ < Expiry THEN @ + 1 ELSE @]
      BY <1>4 DEF Tick
    <3>2. token[i].age \in 0 .. Expiry /\ token[i].gen \in Nat /\ Expiry \in Nat
      BY WebAssumption DEF TokenTypeOK
    <3>3. (IF token[i].age < Expiry THEN token[i].age + 1 ELSE token[i].age) \in 0 .. Expiry
      BY <3>2
    <3> QED
      BY <3>1, <3>2, <3>3 DEF TokenTypeOK
  <2>2. token' \in [Ids -> [gen : Nat, age : 0 .. Expiry]]
    BY <1>4, <2>1 DEF Tick
  <2> QED
    BY <1>4, <2>2 DEF Tick, TokenTypeOK
<1>5. CASE Restart
  BY <1>5 DEF Restart, TokenTypeOK, Fates
<1> QED
  BY <1>1, <1>2, <1>3, <1>4, <1>5, SessionSteps DEF RequestTypeOK

\* cookies and pages name tokens,
LEMMA BrowserTypes ==
  ASSUME Next, BrowserTypeOK, RequestTypeOK, TokenTypeOK
  PROVE  BrowserTypeOK'
<1>1. jar' = [b \in Browsers |-> jar'[b]] /\ pages' = [b \in Browsers |-> pages'[b]]
  <2>1. CASE \E b \in Browsers, ip \in Clients : Login(b, ip)
    BY <2>1 DEF Login, BrowserTypeOK
  <2>2. CASE \E ip \in Guessers : Guess(ip)
    BY <2>2 DEF Guess, BrowserTypeOK
  <2>3. CASE \E b \in Browsers : View(b) \/ Close(b) \/ Submit(b)
    BY <2>3 DEF View, Close, Submit, BrowserTypeOK
  <2>4. ASSUME NEW r \in requests, Handle(r) \/ Admit(r) \/ Match(r) \/ Render(r)
        PROVE  jar' = [b \in Browsers |-> jar'[b]] /\ pages' = [b \in Browsers |-> pages'[b]]
    <3>1. Effect(r) => jar' = [b \in Browsers |-> jar'[b]]
      BY EffectChanges DEF EndSessions, BrowserTypeOK
    <3>2. Refuse(r) => jar' = jar
      BY DEF Refuse
    <3> QED
      BY <2>4, <3>1, <3>2 DEF Handle, Admit, Match, Render, BrowserTypeOK
  <2>5. CASE Tick \/ Restart
    BY <2>5 DEF Tick, Restart, BrowserTypeOK
  <2> QED
    BY <2>1, <2>2, <2>3, <2>4, <2>5 DEF Next, Serve
<1>2. ASSUME NEW b \in Browsers
      PROVE  jar'[b] \in Ids \cup {None} /\ pages'[b] \subseteq Ids \cup {None}
  <2>1. jar'[b] \in Ids \cup {None}
    BY JarSteps DEF BrowserTypeOK, RequestTypeOK, TokenTypeOK
  <2>2. ASSUME NEW i \in pages'[b]
        PROVE  i \in Ids \cup {None}
    <3>1. \A r \in requests : r.cookie \in Ids \cup {None}
      BY DEF RequestTypeOK, RequestType
    <3>2. i \in pages[b] \/ i = jar[b] \/ \E r \in requests : i = r.cookie
      BY PageSteps DEF BrowserTypeOK, RequestTypeOK
    <3> QED
      BY <3>1, <3>2 DEF BrowserTypeOK
  <2> QED
    BY <2>1, <2>2
<1> QED
  BY <1>1, <1>2 DEF BrowserTypeOK

\* and requests are made of what a browser had.
LEMMA RequestTypes ==
  ASSUME Next, RequestTypeOK, BrowserTypeOK
  PROVE  RequestTypeOK'
<1> SUFFICES ASSUME NEW r \in requests' PROVE r \in RequestType
  BY DEF RequestTypeOK, RequestType
<1>1. CASE r \in requests
  BY <1>1 DEF RequestTypeOK
<1>2. ASSUME NEW b \in Browsers, NEW kind \in Kinds, NEW form \in pages[b],
             r = [kind |-> kind, stage |-> "sent", from |-> b, cookie |-> jar[b], form |-> form]
      PROVE  r \in RequestType
  BY <1>2 DEF RequestType, BrowserTypeOK
<1>3. ASSUME NEW q \in requests, NEW stage \in {"admitted", "listing"}, r = [q EXCEPT !.stage = stage]
      PROVE  r \in RequestType
  BY <1>3 DEF RequestType, RequestTypeOK
<1> QED
  BY <1>1, <1>2, <1>3, RequestSteps

---------------------------------------------------------------------------
(* The throttle. *)

\* A failure that is counted no longer is older than the lockout; none that is
\* remembered is younger than the last.
Counted(f, g) ==
  /\ f.count = 0 => g = <<>>
  /\ Len(g) <= MaxFailures + 1
  /\ \A n \in 1 .. Len(g) : g[n] >= f.age /\ (n <= Len(g) - f.count => g[n] > Lockout)
GuessTypeOK == guesses \in [Clients -> Seq(Nat)]
GuessInv == \A ip \in Clients : Counted(failures[ip], guesses[ip])

\* Only a guess, a login, a restart and time touch the throttle.
LEMMA ThrottleSteps ==
  ASSUME Next
  PROVE  \/ UNCHANGED throttle
         \/ \E ip \in Guessers : Guess(ip)
         \/ \E b \in Browsers, ip \in Clients : Login(b, ip)
         \/ Tick
         \/ Restart
BY DEF Next, View, Close, Submit, Serve, Handle, Admit, Match, Render, throttle

\* The latest failures: all of them, or all but the first.
LEMMA RecentIsSuffix ==
  ASSUME NEW g \in Seq(Nat), Len(g) <= MaxFailures + 1, NEW h, h = Recent(Append(g, 0))
  PROVE  /\ h \in Seq(Nat) /\ Len(h) \in 1 .. MaxFailures + 1
         /\ h[Len(h)] = 0
         /\ \E skip \in {0, 1} :
              /\ Len(h) = Len(g) + 1 - skip
              /\ \A n \in 1 .. Len(h) - 1 : n + skip \in 1 .. Len(g) /\ h[n] = g[n + skip]
<1> DEFINE s == Append(g, 0)
<1>1. s \in Seq(Nat) /\ Len(s) = Len(g) + 1 /\ s[Len(g) + 1] = 0 /\ \A n \in 1 .. Len(g) : s[n] = g[n]
  OBVIOUS
<1>2. MaxFailures \in Nat /\ Len(g) \in Nat
  BY WebAssumption
<1> HIDE DEF s
<1>3. CASE Len(s) > MaxFailures + 1
  <2>1. h = Tail(s)
    BY <1>3 DEF Recent, s
  <2>2. s # <<>>
    BY <1>1, <1>2
  <2>3. h \in Seq(Nat) /\ Len(h) = Len(s) - 1 /\ \A n \in 1 .. Len(h) : h[n] = s[n + 1]
    <3>1. /\ Tail(s) \in Seq(Nat) /\ Len(Tail(s)) = Len(s) - 1
          /\ \A n \in 1 .. Len(Tail(s)) : Tail(s)[n] = s[n + 1]
      BY <2>2, <1>1, HeadTailProperties
    <3> QED
      BY <2>1, <3>1
  <2>4. Len(h) = Len(g) /\ Len(g) = MaxFailures + 1
    BY <2>3, <1>1, <1>2, <1>3
  <2>5. ASSUME NEW n \in 1 .. Len(h) - 1
        PROVE  n + 1 \in 1 .. Len(g) /\ h[n] = g[n + 1]
    <3>1. n \in 1 .. Len(h) /\ n + 1 \in 1 .. Len(g)
      BY <2>4, <1>2
    <3>2. h[n] = s[n + 1] /\ s[n + 1] = g[n + 1]
      BY <3>1, <2>3, <1>1
    <3> QED
      BY <3>1, <3>2
  <2>6. h[Len(h)] = 0
    BY <2>3, <2>4, <1>1, <1>2
  <2>7. Len(h) = Len(g) + 1 - 1
    BY <2>4, <1>2
  <2> QED
    BY <2>3, <2>4, <2>5, <2>6, <2>7, <1>2
<1>4. CASE ~(Len(s) > MaxFailures + 1)
  <2>1. h = s
    BY <1>4 DEF Recent, s
  <2> QED
    BY <2>1, <1>1, <1>2, <1>4
<1> QED
  BY <1>3, <1>4

\* Both parts of a failure's bookkeeping after a failure more.
LEMMA GuessKeepsCount ==
  ASSUME NEW ip \in Clients, Guess(ip), ~LockedOut(ip),
         ThrottleTypeOK, GuessTypeOK, Counted(failures[ip], guesses[ip])
  PROVE  /\ failures'[ip] \in [count : 0 .. MaxFailures, age : 0 .. Lockout + 1]
         /\ guesses'[ip] \in Seq(Nat)
         /\ Counted(failures'[ip], guesses'[ip])
<1> DEFINE f == failures[ip]
           g == guesses[ip]
           h == guesses'[ip]
           count == LeftOver(ip).count + 1
<1>1. failures'[ip] = [count |-> count, age |-> 0] /\ h = Recent(Append(g, 0))
  BY DEF Guess, ThrottleTypeOK, GuessTypeOK
<1>2. f.count \in 0 .. MaxFailures /\ f.age \in 0 .. Lockout + 1 /\ g \in Seq(Nat) /\ Len(g) \in Nat
  BY DEF ThrottleTypeOK, GuessTypeOK
<1>3. MaxFailures \in Nat \ {0} /\ Lockout \in Nat
  BY WebAssumption
<1>4. \/ f.count < MaxFailures /\ count = f.count + 1
      \/ f.age > Lockout /\ count = 1
  BY <1>2, <1>3 DEF LockedOut, AtLimit, LeftOver, NoFailures
<1>5. count \in 1 .. MaxFailures
  BY <1>2, <1>3, <1>4
<1>6. /\ Len(g) <= MaxFailures + 1
      /\ \A n \in 1 .. Len(g) : g[n] \in Nat /\ g[n] >= f.age /\ (n <= Len(g) - f.count => g[n] > Lockout)
  BY <1>2 DEF Counted
<1> HIDE DEF f, g, h, count
<1>7. PICK skip \in {0, 1} :
        /\ Len(h) = Len(g) + 1 - skip
        /\ \A n \in 1 .. Len(h) - 1 : n + skip \in 1 .. Len(g) /\ h[n] = g[n + skip]
  BY <1>1, <1>2, <1>6, RecentIsSuffix
<1>8. h \in Seq(Nat) /\ Len(h) \in 1 .. MaxFailures + 1 /\ h[Len(h)] = 0
  BY <1>1, <1>2, <1>6, RecentIsSuffix
<1>9. ASSUME NEW n \in 1 .. Len(h)
      PROVE  h[n] >= 0 /\ (n <= Len(h) - count => h[n] > Lockout)
  <2>1. h[n] \in Nat
    BY <1>8
  <2>2. ASSUME n <= Len(h) - count
        PROVE  h[n] > Lockout
    <3>1. n \in 1 .. Len(h) - 1
      BY <2>2, <1>5, <1>8, <1>3
    <3>2. n + skip \in 1 .. Len(g) /\ h[n] = g[n + skip]
      BY <3>1, <1>7
    <3>3. CASE f.age > Lockout
      BY <3>2, <3>3, <1>2, <1>3, <1>6
    <3>4. CASE count = f.count + 1
      <4>1. n + skip <= Len(g) - f.count
        BY <2>2, <3>4, <1>2, <1>7
      <4> QED
        BY <3>2, <4>1, <1>6
    <3> QED
      BY <3>3, <3>4, <1>4
  <2> QED
    BY <2>1, <2>2
<1>10. Counted(failures'[ip], h)
  BY <1>1, <1>3, <1>5, <1>8, <1>9 DEF Counted
<1>11. failures'[ip] \in [count : 0 .. MaxFailures, age : 0 .. Lockout + 1]
  BY <1>1, <1>3, <1>5
<1> QED
  BY <1>8, <1>10, <1>11 DEF h

\* Time ages an entry and the guesses it counts alike.
LEMMA TickKeepsCount ==
  ASSUME NEW ip \in Clients, Tick, ThrottleTypeOK, GuessTypeOK, Counted(failures[ip], guesses[ip])
  PROVE  /\ failures'[ip] \in [count : 0 .. MaxFailures, age : 0 .. Lockout + 1]
         /\ guesses'[ip] \in Seq(Nat)
         /\ Counted(failures'[ip], guesses'[ip])
<1> DEFINE f == failures[ip]
           g == guesses[ip]
           h == guesses'[ip]
<1>1. failures'[ip] = IF f.count = 0 THEN NoFailures ELSE [f EXCEPT !.age = Later(@, Lockout)]
  BY DEF Tick
<1>2. h = [n \in DOMAIN g |-> Later(g[n], Lockout)]
  BY DEF Tick
<1>3. /\ f \in [count : 0 .. MaxFailures, age : 0 .. Lockout + 1]
      /\ f.count \in 0 .. MaxFailures /\ f.age \in 0 .. Lockout + 1 /\ g \in Seq(Nat)
  BY DEF ThrottleTypeOK, GuessTypeOK
<1>4. MaxFailures \in Nat \ {0} /\ Lockout \in Nat
  BY WebAssumption
<1>5. /\ f.count = 0 => g = <<>>
      /\ Len(g) <= MaxFailures + 1
      /\ \A n \in 1 .. Len(g) : g[n] >= f.age /\ (n <= Len(g) - f.count => g[n] > Lockout)
  BY DEF Counted
<1> HIDE DEF f, g, h
<1>6. \A n \in 1 .. Len(g) : g[n] \in Nat /\ Later(g[n], Lockout) \in Nat
  BY <1>3, <1>4 DEF Later
<1>7. h \in Seq(Nat) /\ Len(h) = Len(g) /\ \A n \in 1 .. Len(g) : h[n] = Later(g[n], Lockout)
  <2>1. DOMAIN g = 1 .. Len(g) /\ Len(g) \in Nat
    BY <1>3, LenProperties
  <2>2. h \in [1 .. Len(g) -> Nat]
    BY <2>1, <1>2, <1>6
  <2>3. h \in Seq(Nat) /\ Len(h) = Len(g)
    BY <2>1, <2>2
  <2> QED
    BY <2>1, <2>3, <1>2
<1>8. CASE f.count = 0
  <2>1. g = <<>> /\ Len(h) = 0
    BY <1>5, <1>7, <1>8
  <2>2. h = <<>>
    BY <2>1, <1>7
  <2>3. failures'[ip] = [count |-> 0, age |-> 0]
    BY <1>1, <1>8 DEF NoFailures
  <2>4. Counted(failures'[ip], h)
    BY <2>1, <2>2, <2>3, <1>4 DEF Counted
  <2> QED
    BY <2>3, <2>4, <1>4, <1>7 DEF h
<1>9. CASE f.count # 0
  <2> DEFINE age == Later(f.age, Lockout)
  <2>1. age \in 0 .. Lockout + 1
    BY <1>3, <1>4 DEF Later
  <2>2. failures'[ip] = [f EXCEPT !.age = age]
    BY <1>1, <1>9
  <2>3. failures'[ip].count = f.count /\ failures'[ip].age = age
    BY <2>2, <1>3
  <2>4. failures'[ip] \in [count : 0 .. MaxFailures, age : 0 .. Lockout + 1]
    BY <2>1, <2>2, <1>3
  <2>5. ASSUME NEW n \in 1 .. Len(h)
        PROVE  h[n] >= age /\ (n <= Len(h) - f.count => h[n] > Lockout)
    BY <1>3, <1>4, <1>5, <1>6, <1>7 DEF Later
  <2> HIDE DEF age
  <2>6. Counted(failures'[ip], h)
    BY <2>3, <2>5, <1>5, <1>7, <1>9 DEF Counted
  <2> QED
    BY <2>4, <2>6, <1>7 DEF h
<1> QED
  BY <1>8, <1>9

ThrottleInv == ThrottleTypeOK /\ GuessTypeOK /\ GuessInv

\* Every step keeps the throttle's part of the invariant,
LEMMA ThrottleStep ==
  ASSUME ThrottleInv, Next
  PROVE  ThrottleInv'
<1> USE DEF ThrottleInv
<1>1. CASE UNCHANGED throttle
  BY <1>1 DEF throttle, ThrottleTypeOK, GuessTypeOK, GuessInv
<1>2. ASSUME \E c \in Guessers : Guess(c)
      PROVE  ThrottleInv'
  <2>1. PICK c \in Guessers : Guess(c)
    BY <1>2
  <2>2. c \in Clients
    BY WebAssumption
  <2>3. CASE LockedOut(c)
    BY <2>1, <2>3 DEF Guess, TurnAway, ThrottleTypeOK, GuessTypeOK, GuessInv
  <2>4. CASE ~LockedOut(c)
    <3>1. /\ failures'[c] \in [count : 0 .. MaxFailures, age : 0 .. Lockout + 1]
          /\ guesses'[c] \in Seq(Nat)
          /\ Counted(failures'[c], guesses'[c])
      BY <2>1, <2>2, <2>4, GuessKeepsCount DEF GuessInv
    <3>2. failures' = [failures EXCEPT ![c] = failures'[c]] /\ guesses' = [guesses EXCEPT ![c] = guesses'[c]]
      BY <2>1, <2>2, <2>4 DEF Guess, ThrottleTypeOK, GuessTypeOK
    <3>3. ThrottleTypeOK' /\ GuessTypeOK'
      BY <3>1, <3>2 DEF ThrottleTypeOK, GuessTypeOK
    <3>4. ASSUME NEW ip \in Clients PROVE Counted(failures'[ip], guesses'[ip])
      <4>1. CASE ip = c
        BY <3>1, <4>1
      <4>2. CASE ip # c
        <5>1. failures'[ip] = failures[ip] /\ guesses'[ip] = guesses[ip]
          BY <3>2, <4>2 DEF ThrottleTypeOK, GuessTypeOK
        <5> QED
          BY <5>1 DEF GuessInv
      <4> QED
        BY <4>1, <4>2
    <3> QED
      BY <3>3, <3>4 DEF GuessInv
  <2> QED
    BY <2>3, <2>4
<1>3. ASSUME NEW b \in Browsers, NEW c \in Clients, Login(b, c)
      PROVE  ThrottleInv'
  <2>1. failures' = [failures EXCEPT ![c] = NoFailures] /\ guesses' = [guesses EXCEPT ![c] = <<>>]
    BY <1>3 DEF Login
  <2>2. NoFailures \in [count : 0 .. MaxFailures, age : 0 .. Lockout + 1] /\ Counted(NoFailures, <<>>)
    BY WebAssumption DEF NoFailures, Counted
  <2>3. ThrottleTypeOK' /\ GuessTypeOK'
    BY <2>1, <2>2 DEF ThrottleTypeOK, GuessTypeOK
  <2> QED
    BY <2>1, <2>2, <2>3 DEF GuessInv, ThrottleTypeOK, GuessTypeOK
<1>4. CASE Tick
  <2>1. \A ip \in Clients : /\ failures'[ip] \in [count : 0 .. MaxFailures, age : 0 .. Lockout + 1]
                            /\ guesses'[ip] \in Seq(Nat)
                            /\ Counted(failures'[ip], guesses'[ip])
    BY <1>4, TickKeepsCount DEF GuessInv
  <2>2. failures' = [ip \in Clients |-> failures'[ip]] /\ guesses' = [ip \in Clients |-> guesses'[ip]]
    BY <1>4 DEF Tick
  <2> QED
    BY <2>1, <2>2 DEF ThrottleTypeOK, GuessTypeOK, GuessInv
<1>5. CASE Restart
  <2>1. NoFailures \in [count : 0 .. MaxFailures, age : 0 .. Lockout + 1] /\ Counted(NoFailures, <<>>)
    BY WebAssumption DEF NoFailures, Counted
  <2> QED
    BY <1>5, <2>1 DEF Restart, ThrottleTypeOK, GuessTypeOK, GuessInv
<1> QED
  BY <1>1, <1>2, <1>3, <1>4, <1>5, ThrottleSteps

\* which says that guesses are slow.
LEMMA CountedIsSlow ==
  ASSUME ThrottleInv
  PROVE  GuessesAreSlow
<1> SUFFICES ASSUME NEW ip \in Clients, Len(guesses[ip]) > MaxFailures
             PROVE  guesses[ip][1] > Lockout
  BY DEF GuessesAreSlow
<1>1. failures[ip].count \in 0 .. MaxFailures /\ guesses[ip] \in Seq(Nat) /\ MaxFailures \in Nat
  BY WebAssumption DEF ThrottleInv, ThrottleTypeOK, GuessTypeOK
<1>2. Counted(failures[ip], guesses[ip])
  BY DEF ThrottleInv, GuessInv
<1>3. 1 \in 1 .. Len(guesses[ip]) /\ 1 <= Len(guesses[ip]) - failures[ip].count
  BY <1>1
<1> QED
  BY <1>2, <1>3 DEF Counted

---------------------------------------------------------------------------
(* The sessions. *)

SessionTypeOK == TokenTypeOK /\ BrowserTypeOK /\ RequestTypeOK
SessionInv == SessionTypeOK /\ GenerationInv /\ CookieInv /\ StageInv /\ OutInv

\* A login mints a token of the present generation, a logout revokes those.
LEMMA GenerationStep ==
  ASSUME SessionTypeOK, GenerationInv, Next
  PROVE  GenerationInv'
<1> USE DEF GenerationInv, SessionTypeOK
<1>1. CASE UNCHANGED sessions
  BY <1>1 DEF sessions
<1>2. CASE \E b \in Browsers, ip \in Clients : Login(b, ip)
  <2>1. PICK i \in Ids : /\ fate[i] = "none" /\ fate' = [fate EXCEPT ![i] = "open"]
                         /\ token' = [token EXCEPT ![i] = [gen |-> generation, age |-> 0]]
    BY <1>2 DEF Login
  <2>2. generation' = generation
    BY <1>2 DEF Login
  <2>3. token'[i].gen = generation /\ fate'[i] = "open"
    BY <2>1 DEF TokenTypeOK
  <2>4. \A j \in Ids \ {i} : token'[j] = token[j] /\ fate'[j] = fate[j]
    BY <2>1 DEF TokenTypeOK
  <2> QED
    BY <2>2, <2>3, <2>4
<1>3. CASE \E b \in Browsers : EndSessions(b)
  <2>1. /\ generation' = generation + 1 /\ token' = token
        /\ \A i \in Ids : fate'[i] = IF fate[i] = "open" THEN "revoked" ELSE fate[i]
    BY <1>3 DEF EndSessions
  <2>2. generation \in Nat /\ \A i \in Ids : token[i].gen \in Nat
    BY DEF TokenTypeOK
  <2> QED
    BY <2>1, <2>2
<1>4. CASE Tick
  <2>1. generation' = generation /\ fate' = fate
    BY <1>4 DEF Tick
  <2>2. ASSUME NEW i \in Ids PROVE token'[i].gen = token[i].gen
    BY <1>4 DEF Tick, TokenTypeOK
  <2> QED
    BY <2>1, <2>2
<1>5. CASE Restart
  BY <1>5 DEF Restart
<1> QED
  BY <1>1, <1>2, <1>3, <1>4, <1>5, SessionSteps DEF RequestTypeOK

\* A token that was minted stays minted.
LEMMA MintedStays ==
  ASSUME SessionTypeOK, Next, NEW i \in Ids, fate[i] # "none"
  PROVE  fate'[i] # "none"
<1> USE DEF SessionTypeOK, TokenTypeOK
<1>1. CASE UNCHANGED sessions
  BY <1>1 DEF sessions
<1>2. CASE \E b \in Browsers, ip \in Clients : Login(b, ip)
  BY <1>2 DEF Login
<1>3. CASE \E b \in Browsers : EndSessions(b)
  BY <1>3 DEF EndSessions
<1>4. CASE Tick \/ Restart
  BY <1>4 DEF Tick, Restart
<1> QED
  BY <1>1, <1>2, <1>3, <1>4, SessionSteps DEF RequestTypeOK

\* A cookie names a token that was minted.
LEMMA CookieStep ==
  ASSUME SessionTypeOK, CookieInv, Next
  PROVE  CookieInv'
<1> DEFINE Stays(i) == i # None => fate'[i] # "none"
<1>1. ASSUME NEW i \in Ids \cup {None}, Minted(i)
      PROVE  Stays(i)
  BY <1>1, MintedStays DEF Minted
<1>2. ASSUME NEW b \in Browsers
      PROVE  jar[b] \in Ids \cup {None} /\ Stays(jar[b])
  BY <1>1 DEF CookieInv, SessionTypeOK, BrowserTypeOK
<1>3. ASSUME NEW r \in requests
      PROVE  r.cookie \in Ids \cup {None} /\ Stays(r.cookie)
  <2>1. r.cookie \in Ids \cup {None}
    BY DEF SessionTypeOK, RequestTypeOK, RequestType
  <2> QED
    BY <1>1, <2>1 DEF CookieInv
<1>4. ASSUME NEW b \in Browsers
      PROVE  Stays(jar'[b])
  <2>1. jar'[b] \in {jar[b], None} \/ (jar'[b] \in Ids /\ fate'[jar'[b]] = "open")
    BY JarSteps DEF SessionTypeOK, BrowserTypeOK, RequestTypeOK, TokenTypeOK
  <2> QED
    BY <1>2, <2>1 DEF Minted
<1>5. ASSUME NEW b \in Browsers, NEW i \in pages'[b]
      PROVE  Stays(i)
  <2>1. i \in pages[b] \/ i = jar[b] \/ \E r \in requests : i = r.cookie
    BY PageSteps DEF SessionTypeOK, BrowserTypeOK, RequestTypeOK
  <2>2. i \in pages[b] => Stays(i)
    BY <1>1 DEF CookieInv, SessionTypeOK, BrowserTypeOK
  <2> QED
    BY <2>1, <2>2, <1>2, <1>3 DEF Minted
<1>6. ASSUME NEW r \in requests'
      PROVE  Stays(r.cookie)
  <2>1. CASE r \in requests
    BY <2>1, <1>3
  <2>2. ASSUME NEW b \in Browsers, NEW kind \in Kinds, NEW form \in pages[b],
               r = [kind |-> kind, stage |-> "sent", from |-> b, cookie |-> jar[b], form |-> form]
        PROVE  Stays(r.cookie)
    <3>1. r.cookie = jar[b]
      BY <2>2
    <3> QED
      BY <3>1, <1>2 DEF Minted
  <2>3. ASSUME NEW q \in requests, NEW stage \in {"admitted", "listing"}, r = [q EXCEPT !.stage = stage]
        PROVE  Stays(r.cookie)
    <3>1. r.cookie = q.cookie
      BY <2>3 DEF SessionTypeOK, RequestTypeOK, RequestType
    <3> QED
      BY <3>1, <1>3 DEF Minted
  <2> QED
    BY <2>1, <2>2, <2>3, RequestSteps
<1> QED
  BY <1>4, <1>5, <1>6 DEF CookieInv, Minted

\* No step leaves an edit between its checks and its deed.
LEMMA StageStep ==
  ASSUME SessionTypeOK, StageInv, Next
  PROVE  StageInv'
<1> SUFFICES ASSUME NEW r \in requests', r.kind = "edit" PROVE r.stage = "sent"
  BY DEF StageInv
<1>1. CASE r \in requests
  BY <1>1 DEF StageInv
<1>2. ASSUME NEW b \in Browsers, NEW kind \in Kinds, NEW form \in pages[b],
             r = [kind |-> kind, stage |-> "sent", from |-> b, cookie |-> jar[b], form |-> form]
      PROVE  r.stage = "sent"
  BY <1>2
<1>3. ASSUME NEW q \in requests, NEW stage \in {"admitted", "listing"}, q.kind # "edit", r = [q EXCEPT !.stage = stage]
      PROVE  FALSE
  BY <1>3 DEF SessionTypeOK, RequestTypeOK, RequestType
<1> QED
  BY <1>1, <1>2, <1>3, RequestSteps

\* After a logout no session is open until the next login.
LEMMA OutStep ==
  ASSUME SessionTypeOK, OutInv, Next
  PROVE  OutInv'
<1> USE DEF OutInv, SessionTypeOK
<1>1. CASE UNCHANGED sessions
  BY <1>1 DEF sessions
<1>2. CASE \E b \in Browsers, ip \in Clients : Login(b, ip)
  BY <1>2 DEF Login
<1>3. CASE \E b \in Browsers : EndSessions(b)
  BY <1>3 DEF EndSessions, TokenTypeOK
<1>4. CASE Tick \/ Restart
  BY <1>4 DEF Tick, Restart
<1> QED
  BY <1>1, <1>2, <1>3, <1>4, SessionSteps DEF RequestTypeOK

\* Every step keeps the session's part of the invariant.
LEMMA SessionStep ==
  ASSUME SessionInv, Next
  PROVE  SessionInv'
<1>1. SessionTypeOK'
  BY TokenTypes, BrowserTypes, RequestTypes DEF SessionInv, SessionTypeOK
<1> QED
  BY <1>1, GenerationStep, CookieStep, StageStep, OutStep DEF SessionInv

---------------------------------------------------------------------------
(* What is judged of a session. *)

\* A valid token is an open one, or one of an earlier process.
LEMMA ValidIsOpen ==
  ASSUME SessionInv, NEW i \in Ids \cup {None}, Minted(i), Valid(i)
  PROVE  i \in Ids /\ fate[i] \in {"open", "foreign"}
<1>1. i \in Ids /\ token[i].gen = generation /\ fate[i] # "none"
  BY DEF Valid, Minted
<1>2. token[i].gen \in Nat /\ fate[i] \in Fates
  BY <1>1 DEF SessionInv, SessionTypeOK, TokenTypeOK
<1>3. fate[i] # "revoked"
  BY <1>1, <1>2 DEF SessionInv, GenerationInv
<1> QED
  BY <1>1, <1>2, <1>3 DEF Fates

\* A request is accepted exactly if its session is open.
LEMMA JudgedRightly ==
  ASSUME SessionInv, NEW i \in Ids \cup {None}, Minted(i), Judge(i), UNCHANGED <<token, fate>>
  PROVE  SessionsHoldUntilLogout'
<1>1. event'.session = i /\ event'.what = IF Valid(i) THEN "accepted" ELSE "rejected"
  BY DEF Judge
<1>2. Valid(i) => i \in Ids /\ fate[i] \in {"open", "foreign"}
  BY ValidIsOpen
<1>4. token' = token /\ fate' = fate
  OBVIOUS
<1>3. ASSUME ~Valid(i), i # None, fate[i] = "open"
      PROVE  token[i].age = Expiry
  <2>1. i \in Ids
    BY <1>3
  <2>2. token[i].gen = generation
    BY <1>3, <2>1 DEF SessionInv, GenerationInv
  <2>3. token[i].age \in 0 .. Expiry /\ Expiry \in Nat
    BY <2>1, WebAssumption DEF SessionInv, SessionTypeOK, TokenTypeOK
  <2> QED
    BY <1>3, <2>2, <2>3 DEF Valid
<1> QED
  BY <1>1, <1>2, <1>3, <1>4 DEF SessionsHoldUntilLogout

\* Every step that judges a request does so rightly.
LEMMA HoldStep ==
  ASSUME SessionInv, Next
  PROVE  SessionsHoldUntilLogout'
<1>1. event' = NoEvent => SessionsHoldUntilLogout'
  BY DEF NoEvent, SessionsHoldUntilLogout
<1>2. ASSUME NEW b \in Browsers, View(b)
      PROVE  SessionsHoldUntilLogout'
  <2>1. jar[b] \in Ids \cup {None} /\ Minted(jar[b])
    BY DEF SessionInv, SessionTypeOK, BrowserTypeOK, CookieInv
  <2>2. Judge(jar[b]) /\ UNCHANGED <<token, fate>>
    BY <1>2 DEF View, sessions
  <2> QED
    BY <2>1, <2>2, JudgedRightly
<1>3. ASSUME NEW r \in requests, Handle(r) \/ Admit(r)
      PROVE  SessionsHoldUntilLogout'
  <2>1. r.cookie \in Ids \cup {None} /\ Minted(r.cookie)
    BY DEF SessionInv, SessionTypeOK, RequestTypeOK, RequestType, CookieInv
  <2>2. CASE Handle(r)
    <3>1. r.kind # "logout"
      BY <2>2 DEF Handle, AtOnce
    <3>2. UNCHANGED sessions
      BY <2>2, <3>1, EffectChanges DEF Handle, Refuse
    <3>3. Judge(r.cookie) /\ UNCHANGED <<token, fate>>
      BY <2>2, <3>2 DEF Handle, sessions
    <3> QED
      BY <2>1, <3>3, JudgedRightly
  <2>3. CASE Admit(r)
    <3>1. Judge(r.cookie) /\ UNCHANGED <<token, fate>>
      BY <2>3 DEF Admit, sessions
    <3> QED
      BY <2>1, <3>1, JudgedRightly
  <2> QED
    BY <1>3, <2>2, <2>3
<1>4. CASE \E ip \in Guessers : Guess(ip)
  BY <1>1, <1>4 DEF Guess
<1>5. CASE \E b \in Browsers, ip \in Clients : Login(b, ip)
  BY <1>1, <1>5 DEF Login
<1>6. CASE \E b \in Browsers : Close(b) \/ Submit(b)
  BY <1>1, <1>6 DEF Close, Submit
<1>7. CASE \E r \in requests : Match(r) \/ Render(r)
  BY <1>1, <1>7 DEF Match, Render
<1>8. CASE Tick \/ Restart
  BY <1>1, <1>8 DEF Tick, Restart
<1> QED
  BY <1>2, <1>3, <1>4, <1>5, <1>6, <1>7, <1>8 DEF Next, Serve

\* An edit is of a session that is open, or of an earlier process.
LEMMA EditStep ==
  ASSUME SessionInv, Next
  PROVE  table' # table => ~out
<1>1. ASSUME NEW r \in requests, Handle(r), table' # table
      PROVE  ~out
  <2>1. Valid(r.cookie)
    BY <1>1 DEF Handle, Refuse
  <2>2. r.cookie \in Ids \cup {None} /\ Minted(r.cookie)
    BY DEF SessionInv, SessionTypeOK, RequestTypeOK, RequestType, CookieInv
  <2> QED
    BY <2>1, <2>2, ValidIsOpen DEF SessionInv, OutInv
<1>2. ASSUME NEW r \in requests, Match(r)
      PROVE  table' = table
  <2>1. r.kind # "edit"
    BY <1>2 DEF Match, SessionInv, StageInv
  <2> QED
    BY <1>2, <2>1, EffectChanges DEF Match, Refuse
<1>3. CASE \E ip \in Guessers : Guess(ip)
  BY <1>3 DEF Guess
<1>4. CASE \E b \in Browsers, ip \in Clients : Login(b, ip)
  BY <1>4 DEF Login
<1>5. CASE \E b \in Browsers : View(b) \/ Close(b) \/ Submit(b)
  BY <1>5 DEF View, Close, Submit
<1>6. CASE \E r \in requests : Admit(r) \/ Render(r)
  BY <1>6 DEF Admit, Render
<1>7. CASE Tick \/ Restart
  BY <1>7 DEF Tick, Restart
<1> QED
  BY <1>1, <1>2, <1>3, <1>4, <1>5, <1>6, <1>7 DEF Next, Serve

---------------------------------------------------------------------------
(* The theorems. *)

IInv == SessionInv /\ ThrottleInv /\ restarts \in 0 .. MaxRestarts /\ table \subseteq Entries

\* The invariant holds at first.
LEMMA InitEstablishes ==
  ASSUME Init
  PROVE  IInv /\ SessionsHoldUntilLogout
<1>1. TokenTypeOK /\ BrowserTypeOK /\ RequestTypeOK
  <2>1. [gen |-> 0, age |-> 0] \in [gen : Nat, age : 0 .. Expiry]
    BY WebAssumption
  <2>2. TokenTypeOK
    BY <2>1 DEF Init, TokenTypeOK, Fates
  <2> QED
    BY <2>2 DEF Init, BrowserTypeOK, RequestTypeOK
<1>2. GenerationInv /\ CookieInv /\ StageInv /\ OutInv
  BY DEF Init, GenerationInv, CookieInv, StageInv, OutInv, Minted
<1>3. NoFailures \in [count : 0 .. MaxFailures, age : 0 .. Lockout + 1] /\ Counted(NoFailures, <<>>)
  BY WebAssumption DEF NoFailures, Counted
<1>4. ThrottleInv
  BY <1>3 DEF Init, ThrottleInv, ThrottleTypeOK, GuessTypeOK, GuessInv
<1>5. restarts \in 0 .. MaxRestarts /\ table \subseteq Entries
  BY WebAssumption DEF Init, Tables
<1>6. SessionsHoldUntilLogout
  BY DEF Init, NoEvent, SessionsHoldUntilLogout
<1> QED
  BY <1>1, <1>2, <1>4, <1>5, <1>6 DEF IInv, SessionInv, SessionTypeOK

\* The number of restarts and the table stay in their bounds.
LEMMA RestStep ==
  ASSUME restarts \in 0 .. MaxRestarts, table \subseteq Entries, Next
  PROVE  restarts' \in 0 .. MaxRestarts /\ table' \subseteq Entries
<1>1. restarts' \in 0 .. MaxRestarts
  <2>1. CASE Restart
    BY <2>1, WebAssumption DEF Restart
  <2>2. CASE ~Restart
    BY <2>2 DEF Next, Guess, Login, View, Close, Submit, Serve, Handle, Admit, Match, Render, Tick
  <2> QED
    BY <2>1, <2>2
<1>2. ASSUME NEW r \in requests, Effect(r)
      PROVE  table' \subseteq Entries
  <2>1. CASE r.kind # "edit"
    BY <1>2, <2>1, EffectChanges
  <2>2. CASE r.kind = "edit"
    <3>1. PICK e \in WebEdits : table' = IF Saves(e, table) THEN Edited(e, table) ELSE table
      BY <1>2, <2>2 DEF Effect, MakeEdit
    <3>2. Edited(e, table) \in Tables
      BY EditedIsTable DEF WebEdits, Tables
    <3> QED
      BY <3>1, <3>2 DEF Tables
  <2> QED
    BY <2>1, <2>2
<1>3. table' \subseteq Entries
  <2>1. ASSUME NEW r \in requests, Handle(r) \/ Match(r)
        PROVE  table' \subseteq Entries
    BY <1>2, <2>1 DEF Handle, Match, Refuse
  <2> QED
    BY <2>1 DEF Next, Guess, Login, View, Close, Submit, Serve, Admit, Render, Tick, Restart
<1> QED
  BY <1>1, <1>3

\* Every step keeps the whole invariant.
LEMMA IInvStep ==
  ASSUME IInv, [Next]_vars
  PROVE  IInv'
<1>1. CASE Next
  BY <1>1, SessionStep, ThrottleStep, RestStep DEF IInv
<1>2. CASE UNCHANGED vars
  <2>1. SessionInv'
    BY <1>2 DEF IInv, SessionInv, SessionTypeOK, TokenTypeOK, BrowserTypeOK, RequestTypeOK,
                GenerationInv, CookieInv, StageInv, OutInv, Minted, vars, sessions
  <2>2. ThrottleInv'
    BY <1>2 DEF IInv, ThrottleInv, ThrottleTypeOK, GuessTypeOK, GuessInv, vars, throttle
  <2> QED
    BY <1>2, <2>1, <2>2 DEF IInv, vars
<1> QED
  BY <1>1, <1>2

\* The invariant holds of every reachable state.
THEOREM Inductive == Spec => []IInv
<1>1. Init => IInv
  BY InitEstablishes
<1>2. IInv /\ [Next]_vars => IInv'
  BY IInvStep
<1> QED
  BY <1>1, <1>2, PTL DEF Spec

\* Every variable keeps its type, and no count of failures passes the limit.
THEOREM TypeCorrect == Spec => []TypeOK
<1>1. IInv => TypeOK
  BY TypeParts DEF IInv, SessionInv, SessionTypeOK, ThrottleInv
<1> QED
  BY <1>1, Inductive, PTL

\* A session is accepted until a logout or its age ends it, and not afterwards.
THEOREM SessionsHold == Spec => []SessionsHoldUntilLogout
<1>1. Init => SessionsHoldUntilLogout
  BY InitEstablishes
<1>2. IInv /\ SessionsHoldUntilLogout /\ [Next]_vars => SessionsHoldUntilLogout'
  <2>1. IInv /\ Next => SessionsHoldUntilLogout'
    BY HoldStep DEF IInv
  <2>2. SessionsHoldUntilLogout /\ UNCHANGED vars => SessionsHoldUntilLogout'
    BY DEF SessionsHoldUntilLogout, vars, sessions
  <2> QED
    BY <2>1, <2>2
<1> QED
  BY <1>1, <1>2, Inductive, PTL DEF Spec

\* Between a logout and the next login nothing is edited over the web.
THEOREM NothingEditedAfterLogout == Spec => NoEditAfterLogout
<1>1. IInv /\ [Next]_vars => [table' # table => ~out]_vars
  BY EditStep DEF IInv
<1> QED
  BY <1>1, Inductive, PTL DEF Spec, NoEditAfterLogout

\* More failures in a row than the limit take longer than the lockout.
THEOREM GuessingIsSlow == Spec => []GuessesAreSlow
<1>1. IInv => GuessesAreSlow
  BY CountedIsSlow DEF IInv
<1> QED
  BY <1>1, Inductive, PTL
=============================================================================
