------------------------------ MODULE Sessions ------------------------------
(***************************************************************************)
(* Sign-in sessions: families of rotating refresh tokens                   *)
(* (services/auth_service.py, repositories/refresh_token_repository.py),   *)
(* the browsers that hold them in a cookie shared by their tabs            *)
(* (api/v1/routes/auth.py, frontend/src/lib/api/client.ts), and the        *)
(* requests of one user that overlap.                                      *)
(*                                                                         *)
(* A handler reads in autocommit; its writes begin with the first DML, and *)
(* keep the write lock until the commit.  An expected error is answered    *)
(* after the commit; a success before it or after it, as FastAPI runs the  *)
(* end of the session dependency (api/deps.py; pyproject.toml allows both).*)
(* Counters of failed sign-ins, access tokens and CSRF are left out.       *)
(***************************************************************************)
EXTENDS Naturals

CONSTANTS
    Tabs, Browser,  \* Browser[t]: whose cookies the tab uses
    Tokens,         \* the refresh tokens, numbered as they are generated
    None,
    Budgets         \* scenarios: how often each kind of event may happen in a behaviour

ASSUME TokensAssumption == Tokens \subseteq Nat \ {0} /\ None \notin Nat

ASSUME BrowserAssumption == DOMAIN Browser = Tabs

\* The requests of the tabs; lost: an answer is lost; dberror: a transaction fails;
\* expire: the lifetime of every token issued so far passes.
Ops    == {"login", "refresh", "logout", "revoke", "password"}
Events == Ops \cup {"lost", "dberror", "expire"}

ASSUME BudgetAssumption == Budgets \subseteq [Events -> Nat]

Browsers == {Browser[t] : t \in Tabs}

VARIABLES
    \* the database
    token,      \* refresh_tokens, None until its row is committed
    hash,       \* users.password_hash: the number of the password it is of
    outdated,   \* it was made with weaker parameters than today's
    \* the process and the network
    req,        \* the request of each tab in flight, or None
    next,       \* the token to be generated next
    \* the browsers
    cookie,     \* cookie[b]: the refresh cookie, or None
    \* history
    passwords,  \* how many password changes have been committed
    ended,      \* the families revoked as a whole
    late,       \* the tokens issued by requests that were under way as that happened
    disturbed,  \* the families whose cookie two requests used at once, or whose answer or
                \* transaction was lost (a family whose row was never written has its number)
    undone,     \* a password change has been overwritten
    left        \* what is left of the scenario's budget

vars == <<token, hash, outdated, req, next, cookie, passwords, ended, late, disturbed,
          undone, left>>

Spend(e) == left[e] > 0 /\ left' = [left EXCEPT ![e] = @ - 1]

Families == Tokens      \* a family has the number of its first token

\* A row of refresh_tokens; pw: history, the password that the sign-in presented.
Rows == [family : Families, revoked : BOOLEAN, expired : BOOLEAN, pw : Nat]

\* What a handler has decided to write: "rotate" and "issue" make a token, "end", "burn"
\* and "change" revoke tokens, "expire" revokes one, "nothing" writes nothing.
Plans   == {"unread", "rotate", "issue", "burn", "expire", "end", "change", "nothing"}
Success == {"rotate", "issue", "end", "change"}

Requests ==
    [op : Ops, presented : Tokens \cup {None}, pw : Nat,    \* what the tab sent
     plan : Plans, family : Families \cup {None}, new : Tokens \cup {None},
     rehash : BOOLEAN, stale : BOOLEAN,
     commit : {"todo", "done", "failed"}, answered : BOOLEAN]

ASSUME NoneAssumption == None \notin Rows \cup Requests

Init ==
    /\ token = [k \in Tokens |-> None] /\ hash = 0 /\ outdated \in BOOLEAN
    /\ req = [t \in Tabs |-> None] /\ next = 1
    /\ cookie = [b \in Browsers |-> None]
    /\ passwords = 0 /\ ended = {} /\ late = {} /\ disturbed = {} /\ undone = FALSE
    /\ left \in Budgets

Busy(t) == req[t] # None

-----------------------------------------------------------------------------
(***************************************************************************)
(* A tab sends a request, with the cookie its browser has at that moment.  *)
(* It refreshes once at a time; its neighbours do not know of it.          *)
(***************************************************************************)
Presents(u, c) == Busy(u) /\ req[u].presented = c

\* The session that the cookie c is of, though its row may still have to be committed.
FamiliesOf(c) ==
    {f \in Families : \/ token[c] # None /\ token[c].family = f
                      \/ \E u \in Tabs : Busy(u) /\ req[u].new = c /\ req[u].family = f}

Send(t, op, pw) ==
    LET c == cookie[Browser[t]] IN
    /\ ~Busy(t) /\ Spend(op)
    /\ req' = [req EXCEPT ![t] =
                 [op |-> op, presented |-> c, pw |-> pw, plan |-> "unread", family |-> None,
                  new |-> None, rehash |-> FALSE, stale |-> FALSE, commit |-> "todo",
                  answered |-> FALSE]]
    /\ disturbed' = IF c # None /\ \E u \in Tabs : Presents(u, c)
                    THEN disturbed \cup FamiliesOf(c) ELSE disturbed
    /\ UNCHANGED <<token, hash, outdated, next, cookie, passwords, ended, late, undone>>

\* Who changes the password, or signs in, types the last one or one before it.
SendLogin(t)    == \E pw \in 0..passwords : Send(t, "login", pw)
SendPassword(t) == \E pw \in 0..passwords : Send(t, "password", pw)
SendRefresh(t)  == cookie[Browser[t]] # None /\ Send(t, "refresh", 0)
SendLogout(t)   == Send(t, "logout", 0)
SendRevoke(t)   == Send(t, "revoke", 0)

-----------------------------------------------------------------------------
(***************************************************************************)
(* The handlers read and decide.                                           *)
(***************************************************************************)
IsLive(k)   == token[k] # None /\ ~token[k].revoked
IsUsable(k) == IsLive(k) /\ ~token[k].expired

\* The read is over, and `plan` is what will be written for `family`.
Decide(t, plan, family, new, rehash) ==
    /\ req' = [req EXCEPT ![t].plan = plan, ![t].family = family, ![t].new = new,
                          ![t].rehash = rehash,
                          ![t].commit = IF plan = "nothing" THEN "done" ELSE "todo"]
    /\ UNCHANGED <<token, hash, outdated, cookie, passwords, ended, late, disturbed, undone,
                   left>>

Reads(t, op) == Busy(t) /\ req[t].op = op /\ req[t].plan = "unread"

\* A wrong password is refused; a right one issues a session of a new family.
ReadLogin(t) ==
    /\ Reads(t, "login")
    /\ IF req[t].pw = hash
       THEN next \in Tokens /\ next' = next + 1 /\ Decide(t, "issue", next, next, outdated)
       ELSE UNCHANGED next /\ Decide(t, "nothing", None, None, FALSE)

ReadRefresh(t) ==
    /\ Reads(t, "refresh")
    /\ LET k == req[t].presented IN
       \/ /\ token[k] = None                          \* not recognised
          /\ UNCHANGED next /\ Decide(t, "nothing", None, None, FALSE)
       \/ /\ token[k] # None /\ ~IsLive(k)            \* taken for a stolen token
          /\ UNCHANGED next /\ Decide(t, "burn", token[k].family, None, FALSE)
       \/ /\ token[k] # None /\ IsLive(k) /\ ~IsUsable(k)
          /\ UNCHANGED next /\ Decide(t, "expire", token[k].family, None, FALSE)
       \/ /\ token[k] # None /\ IsUsable(k) /\ next \in Tokens
          /\ next' = next + 1 /\ Decide(t, "rotate", token[k].family, next, FALSE)

ReadLogout(t) ==
    /\ Reads(t, "logout") /\ UNCHANGED next
    /\ LET k == req[t].presented IN
       IF (k # None => token[k] = None)
       THEN Decide(t, "nothing", None, None, FALSE)
       ELSE Decide(t, "end", token[k].family, None, FALSE)

\* DELETE /auth/sessions/{id}: one of the sessions that are listed as active.
ReadRevoke(t) ==
    /\ Reads(t, "revoke") /\ UNCHANGED next
    /\ \/ \E k \in Tokens : IsUsable(k) /\ Decide(t, "end", token[k].family, None, FALSE)
       \/ /\ \A k \in Tokens : ~IsUsable(k)
          /\ Decide(t, "nothing", None, None, FALSE)

ReadPassword(t) ==
    /\ Reads(t, "password") /\ UNCHANGED next
    /\ IF req[t].pw = hash
       THEN Decide(t, "change", None, None, FALSE)
       ELSE Decide(t, "nothing", None, None, FALSE)

-----------------------------------------------------------------------------
(***************************************************************************)
(* Their writes, in one transaction.                                       *)
(***************************************************************************)
Revoke(ks) == [k \in Tokens |-> IF k \in ks THEN [token[k] EXCEPT !.revoked = TRUE] ELSE token[k]]

PresentedOnly(t) ==     \* mutant: only the token that was presented is revoked
    Revoke({k \in Tokens : k = req[t].presented /\ IsLive(k)})

\* revoke_family and revoke_all_for_user: whatever is live as the statement runs.
Ended(t) ==
    Revoke({k \in Tokens : IsLive(k) /\ (req[t].family # None => token[k].family = req[t].family)})

NewRow(t, pw) == [family |-> req[t].family, revoked |-> FALSE, expired |-> FALSE, pw |-> pw]

RotatedKept(t) ==       \* mutant: the new token is stored, the old one is left
    [token EXCEPT ![req[t].new] = NewRow(t, token[req[t].presented].pw)]

\* The token presented is revoked, be it for the second time, and another issued.
Rotated(t) ==
    [Revoke({req[t].presented}) EXCEPT
        ![req[t].new] = NewRow(t, token[req[t].presented].pw)]

\* What the requests under way have read of a session that ends no longer holds.
Overtaken(t) ==
    [u \in Tabs |->
        IF /\ u # t /\ Busy(u) /\ req[u].plan \in {"rotate", "issue"}
           /\ (req[t].family # None => req[u].family = req[t].family)
        THEN [req[u] EXCEPT !.stale = TRUE] ELSE req[u]]

\* The request leaves when it is both answered and committed.
After(r) == IF r.answered /\ r.commit # "todo" THEN None ELSE r

\* A transaction whose answer went out before its commit still holds the write lock.
MayCommit(t) ==
    /\ Busy(t) /\ req[t].plan # "unread" /\ req[t].commit = "todo"
    /\ \A u \in Tabs \ {t} : Busy(u) /\ req[u].answered => req[u].commit # "todo"

Ends(t) ==
    /\ token' = Ended(t)
    /\ ended' = ended \cup (IF req[t].family # None THEN {req[t].family} ELSE
                            {token[k].family : k \in {k \in Tokens : IsLive(k)}})
    /\ UNCHANGED late

Writes(t) ==
    \/ /\ req[t].plan = "rotate"
       /\ token' = Rotated(t) /\ UNCHANGED <<hash, outdated, passwords, ended, undone>>
       /\ late' = IF req[t].stale \/ req[t].presented \in late THEN late \cup {req[t].new} ELSE late
    \/ /\ req[t].plan = "issue"
       /\ token' = [token EXCEPT ![req[t].new] = NewRow(t, req[t].pw)]
       /\ late' = IF req[t].stale THEN late \cup {req[t].new} ELSE late
       /\ hash' = IF req[t].rehash THEN req[t].pw ELSE hash
       /\ outdated' = (outdated /\ ~req[t].rehash)
       /\ undone' = (undone \/ hash' # hash) /\ UNCHANGED <<passwords, ended>>
    \/ /\ req[t].plan \in {"end", "burn"}
       /\ Ends(t) /\ UNCHANGED <<hash, outdated, passwords, undone>>
    \/ /\ req[t].plan = "change"
       /\ Ends(t)
       /\ passwords' = passwords + 1 /\ hash' = passwords + 1 /\ outdated' = FALSE
       /\ UNCHANGED undone
    \/ /\ req[t].plan = "expire"
       /\ token' = Revoke({req[t].presented})
       /\ UNCHANGED <<hash, outdated, passwords, ended, late, undone>>

Commit(t) ==
    /\ MayCommit(t) /\ Writes(t)
    /\ LET reqs == IF req[t].plan \in {"end", "burn", "change"} THEN Overtaken(t) ELSE req
       IN  req' = [reqs EXCEPT ![t] = After([@ EXCEPT !.commit = "done"])]
    /\ UNCHANGED <<next, cookie, disturbed, left>>

\* The transaction fails and rolls back: a 500, or nothing if the answer has gone out.
CommitFails(t) ==
    /\ MayCommit(t) /\ Spend("dberror")
    /\ req' = [req EXCEPT ![t] = After([@ EXCEPT !.commit = "failed"])]
    /\ disturbed' = disturbed \cup ({req[t].family, req[t].new} \ {None})
    /\ UNCHANGED <<token, hash, outdated, next, cookie, passwords, ended, late, undone>>

-----------------------------------------------------------------------------
(***************************************************************************)
(* The answers, and what they do to the cookie.                            *)
(***************************************************************************)
MayAnswer(t) ==
    /\ Busy(t) /\ req[t].plan # "unread" /\ ~req[t].answered
    /\ (req[t].commit = "todo" => req[t].plan \in Success)
    /\ \A u \in Tabs \ {t} : Busy(u) /\ req[u].answered => req[u].commit # "todo"

CookieOfLogin(t) ==     \* mutant: a refresh answers without the new cookie
    IF req[t].plan = "issue" /\ req[t].commit # "failed" THEN req[t].new
    ELSE IF req[t].op = "logout" \/ req[t].plan = "change" THEN None ELSE cookie[Browser[t]]

NewCookie(t) ==
    LET old == cookie[Browser[t]] IN
    CASE req[t].commit = "failed" -> old
      [] req[t].commit # "failed" /\ req[t].plan \in {"rotate", "issue"} -> req[t].new
      [] req[t].commit # "failed" /\ (req[t].op = "logout" \/ req[t].plan = "change") -> None
      [] OTHER -> old

Answer(t) ==
    /\ MayAnswer(t)
    /\ cookie' = [cookie EXCEPT ![Browser[t]] = NewCookie(t)]
    /\ req' = [req EXCEPT ![t] = After([@ EXCEPT !.answered = TRUE])]
    /\ UNCHANGED <<token, hash, outdated, next, passwords, ended, late, disturbed, undone, left>>

AnswerLost(t) ==
    /\ MayAnswer(t) /\ Spend("lost")
    /\ req' = [req EXCEPT ![t] = After([@ EXCEPT !.answered = TRUE])]
    /\ disturbed' = IF req[t].family # None THEN disturbed \cup {req[t].family} ELSE disturbed
    /\ UNCHANGED <<token, hash, outdated, next, cookie, passwords, ended, late, undone>>

\* refresh_token_ttl_seconds pass for the tokens issued so far.
Expire ==
    /\ Spend("expire")
    /\ token' = [k \in Tokens |->
                    IF token[k] = None THEN None ELSE [token[k] EXCEPT !.expired = TRUE]]
    /\ UNCHANGED <<hash, outdated, req, next, cookie, passwords, ended, late, disturbed, undone>>

-----------------------------------------------------------------------------
Sends(t) ==
    SendLogin(t) \/ SendPassword(t) \/ SendRefresh(t) \/ SendLogout(t) \/ SendRevoke(t)

Handles(t) ==
    \/ ReadLogin(t) \/ ReadRefresh(t) \/ ReadLogout(t) \/ ReadRevoke(t) \/ ReadPassword(t)
    \/ Commit(t) \/ CommitFails(t) \/ Answer(t) \/ AnswerLost(t)

Next == Expire \/ \E t \in Tabs : Sends(t) \/ Handles(t)

Spec == Init /\ [][Next]_vars

-----------------------------------------------------------------------------
(***************************************************************************)
(* Properties.                                                             *)
(***************************************************************************)
Live(f) == {k \in Tokens : IsLive(k) /\ token[k].family = f}

\* Every variable has its type.
TypeOK ==
    /\ token \in [Tokens -> Rows \cup {None}] /\ hash \in Nat /\ outdated \in BOOLEAN
    /\ req \in [Tabs -> Requests \cup {None}] /\ next \in Nat
    /\ cookie \in [Browsers -> Tokens \cup {None}]
    /\ passwords \in Nat /\ ended \subseteq Families /\ late \subseteq Tokens
    /\ disturbed \subseteq Families /\ undone \in BOOLEAN /\ left \in [Events -> Nat]

\* A session has one live token: only a cookie that two requests used at once, or whose
\* answer was lost, forks its family.
OneLive == \A f \in Families : f \in disturbed \/ \A k, l \in Live(f) : k = l

Issues(t)  == Busy(t) /\ req[t].plan \in {"rotate", "issue"}
Rotates(t) == Busy(t) /\ req[t].plan = "rotate"

\* What a handler has decided agrees with what it was asked and what it read.
PlansFit ==
    \A t \in Tabs : Busy(t) =>
       LET r == req[t] IN
       /\ r.plan = "unread" => r.family = None /\ r.commit = "todo" /\ ~r.answered
       /\ r.op = "refresh" => r.presented # None
       /\ r.new # None <=> Issues(t)
       /\ r.plan \in {"burn", "expire", "end"} => r.family # None
       /\ r.plan = "rotate" => r.op = "refresh"
       /\ r.plan \in {"rotate", "expire"} =>
             /\ r.presented # None /\ token[r.presented] # None
             /\ token[r.presented].family = r.family
             /\ r.plan = "expire" => token[r.presented].expired
       /\ r.plan = "issue" => r.op = "login" /\ r.family = r.new
       /\ r.plan = "change" => r.op = "password" /\ r.family = None
       /\ r.answered => r.commit = "todo"

\* What has been generated, stored or sent has a number below the next; a token being
\* issued is nobody else's, and its family is new if a sign-in issues it.
NumbersAreFresh ==
    /\ \A k \in Tokens : token[k] # None => k < next /\ token[k].family < next
    /\ \A f \in ended : f < next
    /\ \A b \in Browsers : cookie[b] # None => cookie[b] < next
    /\ \A t \in Tabs : Busy(t) =>
          \A k \in {req[t].presented, req[t].new, req[t].family} \ {None} : k < next
    /\ \A t, u \in Tabs : Issues(t) /\ Issues(u) /\ t # u => req[t].new # req[u].new
    /\ \A t \in Tabs : Issues(t) =>
          LET k == req[t].new IN
          IF req[t].commit = "done" THEN token[k] # None /\ token[k].family = req[t].family
          ELSE /\ token[k] = None
               /\ req[t].plan = "issue" =>
                    /\ k \notin ended
                    /\ \A l \in Tokens : token[l] # None => token[l].family # k
                    /\ \A u \in Tabs \ {t} : Busy(u) => req[u].family # k

\* A token is known to one browser.
Knows(b, k) ==
    \/ cookie[b] = k
    \/ \E t \in Tabs : Busy(t) /\ Browser[t] = b /\ k \in {req[t].presented, req[t].new}
OneHolder ==
    \A k \in Tokens : \A a, b \in Browsers : Knows(a, k) /\ Knows(b, k) => a = b

\* Two requests with one cookie are known for it, and of an undisturbed session one request
\* at a time rotates the token, which is the live one.
RotatesTheLiveOne ==
    /\ \A t, u \in Tabs : \A c \in Tokens :
          t # u /\ Presents(t, c) /\ Presents(u, c) => FamiliesOf(c) \subseteq disturbed
    /\ \A t \in Tabs : Rotates(t) /\ req[t].commit = "todo" /\ req[t].family \notin disturbed =>
          /\ Live(req[t].family) \subseteq {req[t].presented}
          /\ \A u \in Tabs \ {t} : Rotates(u) /\ req[u].commit = "todo" =>
                                       req[u].family # req[t].family

\* What is about to be issued of a session that has ended is known to be late.
LateIsKnown ==
    /\ hash = passwords \/ undone
    /\ \A t \in Tabs : Issues(t) /\ req[t].commit = "todo" /\ ~req[t].stale =>
          IF req[t].plan = "issue" THEN req[t].pw = passwords \/ undone
          ELSE \/ req[t].presented \in late
               \/ /\ req[t].family \notin ended
                  /\ token[req[t].presented].pw = passwords \/ undone

\* Where a cookie stands: its row is still to be committed, was rolled back, holds, has
\* been ended, or was rotated by a request that has not answered yet.
Holds(k) == token[k] # None /\ (IsLive(k) \/ token[k].expired \/ token[k].family \in ended \cup disturbed)
Awaited(k, b) ==
    \E t \in Tabs : /\ Rotates(t) /\ Browser[t] = b /\ req[t].presented = k
                    /\ req[t].commit = "done" /\ token[k] # None
CookieIsGood ==
    /\ \A b \in Browsers : cookie[b] # None =>
          \/ \E t \in Tabs : /\ Issues(t) /\ Browser[t] = b /\ req[t].new = cookie[b]
                              /\ req[t].answered
          \/ cookie[b] \in disturbed /\ token[cookie[b]] = None
          \/ Holds(cookie[b])
          \/ Awaited(cookie[b], b)
    /\ \A t \in Tabs : Issues(t) /\ ~req[t].answered =>
          /\ req[t].commit = "done" => Holds(req[t].new)
          /\ \A b \in Browsers : cookie[b] # req[t].new
          /\ \A u \in Tabs : Busy(u) => req[u].presented # req[t].new
    /\ \A t \in Tabs : Rotates(t) /\ req[t].answered /\ req[t].family \notin disturbed =>
          \A b \in Browsers : cookie[b] # req[t].presented

\* An inductive invariant.
IInv == /\ TypeOK /\ PlansFit /\ NumbersAreFresh /\ OneHolder /\ RotatesTheLiveOne
        /\ LateIsKnown /\ CookieIsGood /\ OneLive

\* What a logout, a revocation, a password change or a detected reuse has ended stays
\* ended, and no session of an older password remains: only what was already under way
\* as it happened can still issue a token.
EndedStaysEnded ==
    \A k \in Tokens : IsLive(k) /\ k \notin late =>
       /\ token[k].family \notin ended
       /\ token[k].pw = passwords \/ undone

\* A browser whose requests do not overlap and whose answers arrive keeps its session: as
\* long as nobody ended it, the token in its cookie is live once nothing is under way.
SessionLasts ==
    \A b \in Browsers :
       LET k == cookie[b]
           f == IF token[k] = None THEN k ELSE token[k].family
       IN  k # None /\ (\A t \in Tabs : Browser[t] = b => ~Busy(t)) =>
              \/ token[k] # None /\ (IsLive(k) \/ token[k].expired)
              \/ f \in ended \cup disturbed

=============================================================================
