--------------------------- MODULE SessionsProofs ---------------------------
(***************************************************************************)
(* Theorems about Sessions, for any number of tabs, browsers, tokens,      *)
(* requests and faults.                                                    *)
(***************************************************************************)
EXTENDS Sessions, TLAPS

-----------------------------------------------------------------------------
(***************************************************************************)
(* What the steps have in common.                                          *)
(***************************************************************************)
\* A request goes on, and nothing of what it asked, read and decided changes.
Core(u) ==
    /\ Busy(u) /\ req'[u] # None
    /\ req'[u].op = req[u].op /\ req'[u].presented = req[u].presented
    /\ req'[u].pw = req[u].pw /\ req'[u].plan = req[u].plan
    /\ req'[u].family = req[u].family /\ req'[u].new = req[u].new
    /\ req[u].stale => req'[u].stale

\* The request of a tab, if any, is left as it is, but may turn stale.
Same(u) ==
    \/ ~Busy(u) /\ req'[u] = None
    \/ Core(u) /\ req'[u].commit = req[u].commit /\ req'[u].answered = req[u].answered

\* A row stays, but may be revoked or expire.
Grows(k) ==
    token[k] # None =>
       /\ token'[k] # None
       /\ token'[k].family = token[k].family /\ token'[k].pw = token[k].pw
       /\ token[k].revoked => token'[k].revoked
       /\ token[k].expired => token'[k].expired

Sent(t) ==
    /\ \E op \in Ops, pw \in Nat :
          /\ Send(t, op, pw)
          /\ op = "refresh" => cookie[Browser[t]] # None
    /\ t \in Tabs

\* A handler has read: what it has decided, and why.
Read(t, plan, family, new, rehash) ==
    /\ t \in Tabs /\ Busy(t) /\ req[t].plan = "unread"
    /\ Decide(t, plan, family, new, rehash)
    /\ rehash \in BOOLEAN
    /\ IF plan \in {"rotate", "issue"}
       THEN new = next /\ next \in Tokens /\ next' = next + 1
       ELSE new = None /\ next' = next
    /\ \/ plan = "nothing" /\ family = None
       \/ plan = "issue" /\ req[t].op = "login" /\ family = next /\ req[t].pw = hash
       \/ /\ plan = "rotate" /\ req[t].op = "refresh"
          /\ req[t].presented \in Tokens /\ IsLive(req[t].presented)
          /\ family = token[req[t].presented].family
       \/ /\ plan = "expire" /\ req[t].op = "refresh"
          /\ req[t].presented \in Tokens /\ token[req[t].presented] # None
          /\ token[req[t].presented].expired
          /\ family = token[req[t].presented].family
       \/ /\ plan \in {"end", "burn"}
          /\ \E k \in Tokens : token[k] # None /\ family = token[k].family
       \/ plan = "change" /\ req[t].op = "password" /\ family = None

\* Every step is one of these.
Step ==
    \/ Expire \/ UNCHANGED vars
    \/ \E t \in Tabs :
          \/ Sent(t)
          \/ \E plan \in Plans, family \in Families \cup {None}, new \in Tokens \cup {None},
                rehash \in BOOLEAN : Read(t, plan, family, new, rehash)
          \/ Commit(t) \/ CommitFails(t) \/ Answer(t) \/ AnswerLost(t)

LEMMA Spends ==
    ASSUME left \in [Events -> Nat], NEW e \in Events, Spend(e)
    PROVE  left' \in [Events -> Nat]
  BY DEF Spend

\* The steps of the model are those.
LEMMA Steps == ASSUME TypeOK, PlansFit, [Next]_vars PROVE Step
<1>t. /\ token \in [Tokens -> Rows \cup {None}] /\ hash \in Nat /\ outdated \in BOOLEAN
      /\ req \in [Tabs -> Requests \cup {None}] /\ next \in Nat /\ passwords \in Nat
  BY DEF TypeOK
<1>1. ASSUME NEW t \in Tabs, Sends(t) PROVE Sent(t)
  <2>1. 0 \in Nat /\ \A pw \in 0..passwords : pw \in Nat
    BY <1>t
  <2>2. QED
    BY <1>1, <2>1 DEF Sends, SendLogin, SendPassword, SendRefresh, SendLogout, SendRevoke, Sent, Ops
<1>2. ASSUME NEW t \in Tabs,
             ReadLogin(t) \/ ReadRefresh(t) \/ ReadLogout(t) \/ ReadRevoke(t) \/ ReadPassword(t)
      PROVE  \E plan \in Plans, family \in Families \cup {None}, new \in Tokens \cup {None},
                rehash \in BOOLEAN : Read(t, plan, family, new, rehash)
  <2>t. Busy(t) => req[t] \in Requests
    BY <1>t DEF Busy
  <2>f. \A k \in Tokens : token[k] # None => token[k] \in Rows /\ token[k].family \in Families
    BY <1>t DEF Rows
  <2>p. /\ {"nothing", "issue", "rotate", "expire", "end", "burn", "change"} \subseteq Plans
        /\ FALSE \in BOOLEAN /\ None \in Families \cup {None} /\ None \in Tokens \cup {None}
    BY DEF Plans
  <2>1. CASE ReadLogin(t)
    <3>1. CASE req[t].pw = hash
      <4>1. Read(t, "issue", next, next, outdated) /\ next \in Tokens
        BY <1>t, <2>1, <3>1 DEF ReadLogin, Reads, Read
      <4>2. QED
        BY <4>1, <2>p, <1>t DEF Families
    <3>2. CASE req[t].pw # hash
      <4>1. Read(t, "nothing", None, None, FALSE)
        BY <2>1, <3>2 DEF ReadLogin, Reads, Read
      <4>2. QED
        BY <4>1, <2>p
    <3>3. QED
      BY <3>1, <3>2
  <2>2. CASE ReadRefresh(t)
    <3>1. req[t].presented \in Tokens
      BY <2>2, <2>t DEF ReadRefresh, Reads, PlansFit, Requests
    <3>2. CASE Decide(t, "nothing", None, None, FALSE) /\ next' = next
      <4>1. Read(t, "nothing", None, None, FALSE)
        BY <2>2, <3>2 DEF ReadRefresh, Reads, Read
      <4>2. QED
        BY <4>1, <2>p
    <3>3. CASE /\ token[req[t].presented] # None
               /\ Decide(t, "burn", token[req[t].presented].family, None, FALSE) /\ next' = next
      <4>1. Read(t, "burn", token[req[t].presented].family, None, FALSE)
        BY <2>2, <3>1, <3>3 DEF ReadRefresh, Reads, Read
      <4>2. QED
        BY <4>1, <3>1, <3>3, <2>p, <2>f
    <3>4. CASE /\ token[req[t].presented] # None
               /\ IsLive(req[t].presented) /\ ~IsUsable(req[t].presented)
               /\ Decide(t, "expire", token[req[t].presented].family, None, FALSE) /\ next' = next
      <4>1. Read(t, "expire", token[req[t].presented].family, None, FALSE)
        BY <2>2, <3>1, <3>4 DEF ReadRefresh, Reads, Read, IsUsable
      <4>2. QED
        BY <4>1, <3>1, <3>4, <2>p, <2>f
    <3>5. CASE /\ token[req[t].presented] # None /\ IsUsable(req[t].presented) /\ next \in Tokens
               /\ Decide(t, "rotate", token[req[t].presented].family, next, FALSE)
               /\ next' = next + 1
      <4>1. Read(t, "rotate", token[req[t].presented].family, next, FALSE)
        BY <2>2, <3>1, <3>5 DEF ReadRefresh, Reads, Read, IsUsable
      <4>2. QED
        BY <4>1, <3>1, <3>5, <2>p, <2>f
    <3>6. QED
      BY <2>2, <3>2, <3>3, <3>4, <3>5 DEF ReadRefresh
  <2>3. CASE ReadLogout(t)
    <3>1. CASE Decide(t, "nothing", None, None, FALSE)
      <4>1. Read(t, "nothing", None, None, FALSE)
        BY <2>3, <3>1 DEF ReadLogout, Reads, Read
      <4>2. QED
        BY <4>1, <2>p
    <3>2. CASE ~(req[t].presented # None => token[req[t].presented] = None)
      <4>1. req[t].presented \in Tokens
        BY <2>3, <2>t, <3>2 DEF ReadLogout, Reads, Requests
      <4>2. Read(t, "end", token[req[t].presented].family, None, FALSE)
        BY <2>3, <3>2, <4>1 DEF ReadLogout, Reads, Read
      <4>3. QED
        BY <3>2, <4>1, <4>2, <2>p, <2>f
    <3>3. QED
      BY <2>3, <3>1, <3>2 DEF ReadLogout
  <2>4. CASE ReadRevoke(t)
    <3>1. CASE Decide(t, "nothing", None, None, FALSE)
      <4>1. Read(t, "nothing", None, None, FALSE)
        BY <2>4, <3>1 DEF ReadRevoke, Reads, Read
      <4>2. QED
        BY <4>1, <2>p
    <3>2. ASSUME NEW k \in Tokens, IsUsable(k), Decide(t, "end", token[k].family, None, FALSE)
          PROVE  \E plan \in Plans, family \in Families \cup {None}, new \in Tokens \cup {None},
                    rehash \in BOOLEAN : Read(t, plan, family, new, rehash)
      <4>1. token[k] # None /\ Read(t, "end", token[k].family, None, FALSE)
        BY <2>4, <3>2 DEF ReadRevoke, Reads, Read, IsUsable, IsLive
      <4>2. QED
        BY <4>1, <2>p, <2>f
    <3>3. QED
      BY <2>4, <3>1, <3>2 DEF ReadRevoke
  <2>5. CASE ReadPassword(t)
    <3>1. CASE req[t].pw = hash
      <4>1. Read(t, "change", None, None, FALSE)
        BY <2>5, <3>1 DEF ReadPassword, Reads, Read
      <4>2. QED
        BY <4>1, <2>p
    <3>2. CASE req[t].pw # hash
      <4>1. Read(t, "nothing", None, None, FALSE)
        BY <2>5, <3>2 DEF ReadPassword, Reads, Read
      <4>2. QED
        BY <4>1, <2>p
    <3>3. QED
      BY <3>1, <3>2
  <2>6. QED
    BY <1>2, <2>1, <2>2, <2>3, <2>4, <2>5
<1>3. QED
  BY <1>1, <1>2 DEF Next, Handles, Step

LEMMA SendFrame ==
    ASSUME TypeOK, NEW t \in Tabs, Sent(t)
    PROVE  /\ \A u \in Tabs \ {t} : Same(u)
           /\ ~Busy(t) /\ req'[t] \in Requests /\ req'[t] # None /\ Browser[t] \in Browsers
           /\ req'[t].presented = cookie[Browser[t]] /\ req'[t].plan = "unread"
           /\ req'[t].family = None /\ req'[t].new = None /\ req'[t].stale = FALSE
           /\ req'[t].commit = "todo" /\ req'[t].answered = FALSE
           /\ req'[t].op = "refresh" => req'[t].presented # None
           /\ disturbed' = IF /\ cookie[Browser[t]] # None
                              /\ \E u \in Tabs : Presents(u, cookie[Browser[t]])
                           THEN disturbed \cup FamiliesOf(cookie[Browser[t]]) ELSE disturbed
           /\ disturbed' \subseteq Families
           /\ left' \in [Events -> Nat]
           /\ UNCHANGED <<token, hash, outdated, next, cookie, passwords, ended, late, undone>>
           /\ TypeOK'
<1>t. /\ req \in [Tabs -> Requests \cup {None}] /\ cookie \in [Browsers -> Tokens \cup {None}]
      /\ disturbed \subseteq Families /\ left \in [Events -> Nat]
  BY DEF TypeOK
<1>b. Browser[t] \in Browsers
  BY DEF Browsers
<1>1. PICK op \in Ops, pw \in Nat :
         Send(t, op, pw) /\ (op = "refresh" => cookie[Browser[t]] # None)
  BY DEF Sent
<1> DEFINE r == [op |-> op, presented |-> cookie[Browser[t]], pw |-> pw, plan |-> "unread",
                 family |-> None, new |-> None, rehash |-> FALSE, stale |-> FALSE,
                 commit |-> "todo", answered |-> FALSE]
<1>2. r \in Requests
  BY <1>t, <1>b DEF Requests, Plans
<1>3. r # None
  BY <1>2, NoneAssumption
<1>4. req' = [req EXCEPT ![t] = r]
  BY <1>1 DEF Send
<1>5. req'[t] = r /\ \A u \in Tabs \ {t} : req'[u] = req[u]
  BY <1>4, <1>t
<1>6. \A u \in Tabs \ {t} : Same(u)
  BY <1>5 DEF Same, Core, Busy
<1>7. left' \in [Events -> Nat]
  BY <1>1, <1>t, Spends DEF Send, Events
<1>8. disturbed' \subseteq Families
  BY <1>1, <1>t DEF Send, FamiliesOf
<1>9. req' \in [Tabs -> Requests \cup {None}]
  BY <1>2, <1>4, <1>t
<1>10. /\ UNCHANGED <<token, hash, outdated, next, cookie, passwords, ended, late, undone>>
       /\ ~Busy(t)
       /\ disturbed' = IF /\ cookie[Browser[t]] # None
                          /\ \E u \in Tabs : Presents(u, cookie[Browser[t]])
                       THEN disturbed \cup FamiliesOf(cookie[Browser[t]]) ELSE disturbed
  BY <1>1 DEF Send
<1>11. TypeOK'
  BY <1>7, <1>8, <1>9, <1>10 DEF TypeOK
<1>12. QED
  BY <1>b, <1>1, <1>2, <1>3, <1>5, <1>6, <1>7, <1>8, <1>10, <1>11

\* What becomes of the request.
Decided(t, plan, family, new) ==
    /\ \A u \in Tabs \ {t} : Same(u)
    /\ Busy(t) /\ req[t] \in Requests /\ req'[t] \in Requests /\ req'[t] # None
    /\ req[t].new = None /\ req[t].family = None
    /\ req'[t].op = req[t].op /\ req'[t].presented = req[t].presented
    /\ req'[t].pw = req[t].pw /\ req'[t].plan = plan
    /\ req'[t].family = family /\ req'[t].new = new
    /\ req'[t].commit = (IF plan = "nothing" THEN "done" ELSE "todo")
    /\ req'[t].answered = FALSE
    /\ UNCHANGED <<token, hash, outdated, cookie, passwords, ended, late, disturbed, undone, left>>

LEMMA ReadFrame ==
    ASSUME TypeOK, PlansFit, NEW t \in Tabs, NEW plan \in Plans, NEW family \in Families \cup {None},
           NEW new \in Tokens \cup {None}, NEW rehash \in BOOLEAN,
           Read(t, plan, family, new, rehash)
    PROVE  Decided(t, plan, family, new) /\ TypeOK'
<1>t. req \in [Tabs -> Requests \cup {None}] /\ next \in Nat
  BY DEF TypeOK
<1>1. Busy(t) /\ req[t] \in Requests
  BY <1>t DEF Read, Busy
<1> DEFINE r == [req[t] EXCEPT !.plan = plan, !.family = family, !.new = new, !.rehash = rehash,
                               !.commit = IF plan = "nothing" THEN "done" ELSE "todo"]
<1>2. r \in Requests
  BY <1>1 DEF Requests
<1>3. r # None
  BY <1>2, NoneAssumption
<1>4. req' = [req EXCEPT ![t] = r]
  BY <1>t DEF Read, Decide
<1>5. req'[t] = r /\ \A u \in Tabs \ {t} : req'[u] = req[u]
  BY <1>4, <1>t
<1>6. \A u \in Tabs \ {t} : Same(u)
  BY <1>5 DEF Same, Core, Busy
<1>7. req' \in [Tabs -> Requests \cup {None}]
  BY <1>2, <1>4, <1>t
<1>8. UNCHANGED <<token, hash, outdated, cookie, passwords, ended, late, disturbed, undone, left>>
  BY DEF Read, Decide
<1>9. next' \in Nat
  BY <1>t DEF Read
<1>10. TypeOK'
  BY <1>7, <1>8, <1>9 DEF TypeOK
<1>11. ~req[t].answered /\ req[t].answered \in BOOLEAN /\ req[t].new = None /\ req[t].family = None
  BY <1>1 DEF Read, PlansFit, Requests, Issues
<1>12. /\ r.op = req[t].op /\ r.presented = req[t].presented
       /\ r.pw = req[t].pw /\ r.plan = plan /\ r.family = family /\ r.new = new
       /\ r.commit = (IF plan = "nothing" THEN "done" ELSE "todo")
       /\ r.answered = req[t].answered
  BY <1>1 DEF Requests
<1>13. QED
  BY <1>1, <1>2, <1>3, <1>5, <1>6, <1>8, <1>10, <1>11, <1>12 DEF Decided

LEMMA Leaves ==
    ASSUME TypeOK, NEW t \in Tabs, Busy(t), NEW c \in {"todo", "done", "failed"}, NEW a \in BOOLEAN,
           req'[t] = After([req[t] EXCEPT !.commit = c, !.answered = a])
    PROVE  /\ req'[t] \in Requests \cup {None}
           /\ req[t] \in Requests
           /\ IF a /\ c # "todo" THEN req'[t] = None
              ELSE Core(t) /\ req'[t].commit = c /\ req'[t].answered = a
<1>t. req \in [Tabs -> Requests \cup {None}]
  BY DEF TypeOK
<1>1. req[t] \in Requests
  BY <1>t DEF Busy
<1> DEFINE r == [req[t] EXCEPT !.commit = c, !.answered = a]
<1>2. r \in Requests
  BY <1>1 DEF Requests
<1>3. r # None
  BY <1>2, NoneAssumption
<1>4. After(r) \in Requests \cup {None}
  BY <1>2 DEF After
<1>5. /\ r.op = req[t].op /\ r.presented = req[t].presented /\ r.pw = req[t].pw
      /\ r.plan = req[t].plan /\ r.family = req[t].family /\ r.new = req[t].new
      /\ r.stale = req[t].stale /\ r.commit = c /\ r.answered = a
  BY <1>1 DEF Requests
<1>6. req'[t] = After(r)
  OBVIOUS
<1> HIDE DEF r
<1>7. IF a /\ c # "todo" THEN After(r) = None ELSE After(r) = r
  BY <1>5 DEF After
<1>8. CASE a /\ c # "todo"
  BY <1>1, <1>4, <1>6, <1>7, <1>8
<1>9. CASE ~(a /\ c # "todo")
  <2>1. Core(t) /\ req'[t].commit = c /\ req'[t].answered = a
    BY <1>3, <1>1, <1>5, <1>6, <1>7, <1>9 DEF Core, Busy
  <2>2. QED
    BY <1>1, <1>4, <1>6, <1>9, <2>1
<1>10. QED
  BY <1>8, <1>9

\* A request whose transaction ends leaves if it has been answered.
Ending(t, c) ==
    IF req[t].answered THEN req'[t] = None
    ELSE Core(t) /\ req'[t].commit = c /\ req'[t].answered = FALSE

LEMMA FailFrame ==
    ASSUME TypeOK, NEW t \in Tabs, CommitFails(t)
    PROVE  /\ \A u \in Tabs \ {t} : Same(u)
           /\ Busy(t) /\ req[t] \in Requests /\ req[t].plan # "unread" /\ req[t].commit = "todo"
           /\ Ending(t, "failed")
           /\ disturbed' = disturbed \cup ({req[t].family, req[t].new} \ {None})
           /\ UNCHANGED <<token, hash, outdated, next, cookie, passwords, ended, late, undone>>
           /\ TypeOK'
<1>t. /\ req \in [Tabs -> Requests \cup {None}] /\ left \in [Events -> Nat]
      /\ disturbed \subseteq Families
  BY DEF TypeOK
<1>1. /\ Busy(t) /\ req[t].plan # "unread" /\ req[t].commit = "todo"
      /\ disturbed' = disturbed \cup ({req[t].family, req[t].new} \ {None})
      /\ UNCHANGED <<token, hash, outdated, next, cookie, passwords, ended, late, undone>>
      /\ req' = [req EXCEPT ![t] = After([@ EXCEPT !.commit = "failed"])]
  BY DEF CommitFails, MayCommit
<1>2. req[t] \in Requests
  BY <1>1, <1>t DEF Busy
<1>3. [req[t] EXCEPT !.commit = "failed"]
        = [req[t] EXCEPT !.commit = "failed", !.answered = req[t].answered]
  BY <1>2 DEF Requests
<1>4. req' = [req EXCEPT ![t] =
                After([req[t] EXCEPT !.commit = "failed", !.answered = req[t].answered])]
  BY <1>1, <1>3, <1>t
<1>5. req[t].answered \in BOOLEAN
  BY <1>2 DEF Requests
<1>6. /\ req' \in [Tabs -> Requests \cup {None}]
      /\ \A u \in Tabs \ {t} : req'[u] = req[u]
      /\ IF req[t].answered /\ "failed" # "todo" THEN req'[t] = None
         ELSE Core(t) /\ req'[t].commit = "failed" /\ req'[t].answered = req[t].answered
  <2>1. /\ req'[t] = After([req[t] EXCEPT !.commit = "failed", !.answered = req[t].answered])
        /\ \A u \in Tabs \ {t} : req'[u] = req[u]
    BY <1>4, <1>t
  <2>2. /\ req'[t] \in Requests \cup {None}
        /\ IF req[t].answered /\ "failed" # "todo" THEN req'[t] = None
           ELSE Core(t) /\ req'[t].commit = "failed" /\ req'[t].answered = req[t].answered
    BY <1>1, <1>5, <2>1, Leaves
  <2>3. QED
    BY <1>4, <1>t, <2>1, <2>2
<1>7. \A u \in Tabs \ {t} : Same(u)
  BY <1>6 DEF Same, Core, Busy
<1>8. Ending(t, "failed")
  BY <1>5, <1>6 DEF Ending
<1>9. left' \in [Events -> Nat]
  BY <1>t, Spends DEF CommitFails, Events
<1>10. disturbed' \subseteq Families
  BY <1>1, <1>2, <1>t DEF Requests, Families
<1>11. TypeOK'
  BY <1>1, <1>6, <1>9, <1>10 DEF TypeOK
<1>12. QED
  BY <1>1, <1>2, <1>7, <1>8, <1>11

\* An answered request leaves if its transaction is over.
Answering(t) ==
    IF req[t].commit # "todo" THEN req'[t] = None
    ELSE Core(t) /\ req'[t].commit = "todo" /\ req'[t].answered = TRUE

LEMMA AnswerFrame ==
    ASSUME TypeOK, NEW t \in Tabs, Answer(t) \/ AnswerLost(t)
    PROVE  /\ \A u \in Tabs \ {t} : Same(u)
           /\ Busy(t) /\ req[t] \in Requests /\ req[t].plan # "unread" /\ ~req[t].answered
           /\ Answering(t) /\ Browser[t] \in Browsers
           /\ \/ /\ cookie' = [cookie EXCEPT ![Browser[t]] = NewCookie(t)]
                 /\ NewCookie(t) \in Tokens \cup {None}
                 /\ disturbed' = disturbed
              \/ /\ cookie' = cookie
                 /\ disturbed' = IF req[t].family # None THEN disturbed \cup {req[t].family}
                                 ELSE disturbed
           /\ UNCHANGED <<token, hash, outdated, next, passwords, ended, late, undone>>
           /\ TypeOK'
<1>t. /\ req \in [Tabs -> Requests \cup {None}] /\ left \in [Events -> Nat]
      /\ disturbed \subseteq Families /\ cookie \in [Browsers -> Tokens \cup {None}]
  BY DEF TypeOK
<1>b. Browser[t] \in Browsers
  BY DEF Browsers
<1>1. /\ Busy(t) /\ req[t].plan # "unread" /\ ~req[t].answered
      /\ UNCHANGED <<token, hash, outdated, next, passwords, ended, late, undone>>
      /\ req' = [req EXCEPT ![t] = After([@ EXCEPT !.answered = TRUE])]
  BY DEF Answer, AnswerLost, MayAnswer
<1>2. req[t] \in Requests
  BY <1>1, <1>t DEF Busy
<1>3. [req[t] EXCEPT !.answered = TRUE]
        = [req[t] EXCEPT !.commit = req[t].commit, !.answered = TRUE]
  BY <1>2 DEF Requests
<1>4. req' = [req EXCEPT ![t] =
                After([req[t] EXCEPT !.commit = req[t].commit, !.answered = TRUE])]
  BY <1>1, <1>3, <1>t
<1>5. req[t].commit \in {"todo", "done", "failed"}
  BY <1>2 DEF Requests
<1>6. /\ req' \in [Tabs -> Requests \cup {None}]
      /\ \A u \in Tabs \ {t} : req'[u] = req[u]
      /\ IF TRUE /\ req[t].commit # "todo" THEN req'[t] = None
         ELSE Core(t) /\ req'[t].commit = req[t].commit /\ req'[t].answered = TRUE
  <2>1. /\ req'[t] = After([req[t] EXCEPT !.commit = req[t].commit, !.answered = TRUE])
        /\ \A u \in Tabs \ {t} : req'[u] = req[u]
    BY <1>4, <1>t
  <2>2. /\ req'[t] \in Requests \cup {None}
        /\ IF TRUE /\ req[t].commit # "todo" THEN req'[t] = None
           ELSE Core(t) /\ req'[t].commit = req[t].commit /\ req'[t].answered = TRUE
    BY <1>1, <1>5, <2>1, Leaves
  <2>3. QED
    BY <1>4, <1>t, <2>1, <2>2
<1>7. \A u \in Tabs \ {t} : Same(u)
  BY <1>6 DEF Same, Core, Busy
<1>8. Answering(t)
  BY <1>6 DEF Answering
<1>9. left' \in [Events -> Nat]
  BY <1>t, Spends DEF Answer, AnswerLost, Events
<1>10. NewCookie(t) \in Tokens \cup {None}
  BY <1>b, <1>2, <1>t DEF NewCookie, Requests
<1>11. \/ /\ cookie' = [cookie EXCEPT ![Browser[t]] = NewCookie(t)]
          /\ NewCookie(t) \in Tokens \cup {None} /\ disturbed' = disturbed
       \/ /\ cookie' = cookie
          /\ disturbed' = IF req[t].family # None THEN disturbed \cup {req[t].family}
                          ELSE disturbed
  BY <1>10 DEF Answer, AnswerLost
<1>12. disturbed' \subseteq Families /\ cookie' \in [Browsers -> Tokens \cup {None}]
  BY <1>2, <1>11, <1>t DEF Requests
<1>13. TypeOK'
  BY <1>1, <1>6, <1>9, <1>12 DEF TypeOK
<1>14. QED
  BY <1>b, <1>1, <1>2, <1>7, <1>8, <1>11, <1>13

\* A commit leaves a row alone, or revokes it.
Voided(k) ==
    /\ token[k] # None /\ token'[k] \in Rows /\ token'[k] # None
    /\ token'[k].family = token[k].family /\ token'[k].pw = token[k].pw
    /\ token'[k].expired = token[k].expired /\ token'[k].revoked = TRUE

Hits(t, k) ==
    \/ req[t].plan \in {"rotate", "expire"} /\ k = req[t].presented
    \/ /\ req[t].plan \in {"end", "burn", "change"} /\ IsLive(k)
       /\ req[t].family # None => token[k].family = req[t].family

\* The row that a commit writes.
Put(t) ==
    LET k == req[t].new IN
    /\ k \in Tokens /\ token'[k] \in Rows /\ token'[k] # None
    /\ token'[k].family = req[t].family
    /\ token'[k].revoked = FALSE /\ token'[k].expired = FALSE
    /\ token'[k].pw = IF req[t].plan = "issue" THEN req[t].pw ELSE token[req[t].presented].pw

LEMMA Revoking ==
    ASSUME TypeOK, NEW ks, \A k \in ks : k \in Tokens => token[k] # None
    PROVE  /\ Revoke(ks) \in [Tokens -> Rows \cup {None}]
           /\ \A k \in Tokens :
                 IF k \in ks
                 THEN /\ token[k] \in Rows /\ Revoke(ks)[k] \in Rows /\ Revoke(ks)[k] # None
                      /\ Revoke(ks)[k].family = token[k].family
                      /\ Revoke(ks)[k].pw = token[k].pw
                      /\ Revoke(ks)[k].expired = token[k].expired
                      /\ Revoke(ks)[k].revoked = TRUE
                 ELSE Revoke(ks)[k] = token[k]
<1>t. token \in [Tokens -> Rows \cup {None}]
  BY DEF TypeOK
<1>1. ASSUME NEW k \in Tokens, k \in ks
      PROVE  LET r == [token[k] EXCEPT !.revoked = TRUE] IN
             /\ token[k] \in Rows /\ r \in Rows /\ r # None
             /\ r.family = token[k].family /\ r.pw = token[k].pw
             /\ r.expired = token[k].expired /\ r.revoked = TRUE
  <2>1. token[k] \in Rows
    BY <1>1, <1>t
  <2>2. [token[k] EXCEPT !.revoked = TRUE] \in Rows
    BY <2>1 DEF Rows
  <2>3. [token[k] EXCEPT !.revoked = TRUE] # None
    BY <2>2, NoneAssumption
  <2>4. QED
    BY <2>1, <2>2, <2>3 DEF Rows
<1>2. \A k \in Tokens :
         Revoke(ks)[k] = IF k \in ks THEN [token[k] EXCEPT !.revoked = TRUE] ELSE token[k]
  BY DEF Revoke
<1>3. Revoke(ks) \in [Tokens -> Rows \cup {None}]
  BY <1>1, <1>t DEF Revoke
<1>4. QED
  BY <1>1, <1>2, <1>3

\* The rows after a commit.
LEMMA CommitRows ==
    ASSUME TypeOK, PlansFit, NEW t \in Tabs, Commit(t)
    PROVE  /\ token' \in [Tokens -> Rows \cup {None}]
           /\ Issues(t) => Put(t)
           /\ \A k \in Tokens : ~(Issues(t) /\ k = req[t].new) =>
                 IF Hits(t, k) THEN Voided(k) ELSE token'[k] = token[k]
<1>t. /\ token \in [Tokens -> Rows \cup {None}] /\ req \in [Tabs -> Requests \cup {None}]
  BY DEF TypeOK
<1>1. Busy(t) /\ req[t].commit = "todo" /\ Writes(t)
  BY DEF Commit, MayCommit
<1>2. req[t] \in Requests
  BY <1>1, <1>t DEF Busy
<1>3. /\ Issues(t) => req[t].new \in Tokens
      /\ req[t].plan \in {"rotate", "expire"} =>
            req[t].presented \in Tokens /\ token[req[t].presented] # None
      /\ Issues(t) => req[t].family \in Families
  <2>1. /\ Issues(t) => req[t].new # None
        /\ req[t].plan = "issue" => req[t].family = req[t].new
        /\ req[t].plan \in {"rotate", "expire"} =>
             /\ req[t].presented # None /\ token[req[t].presented] # None
             /\ token[req[t].presented].family = req[t].family
    BY <1>1 DEF PlansFit, Issues
  <2>2. req[t].new \in Tokens \cup {None} /\ req[t].presented \in Tokens \cup {None}
    BY <1>2 DEF Requests
  <2>3. req[t].plan = "rotate" => token[req[t].presented] \in Rows
    BY <2>1, <2>2, <1>t
  <2>4. QED
    BY <2>1, <2>2, <2>3 DEF Issues, Families, Rows
<1> DEFINE n == NewRow(t, req[t].pw)
           m == NewRow(t, token[req[t].presented].pw)
<1>4. CASE req[t].plan = "issue"
  <2>1. token' = [token EXCEPT ![req[t].new] = n]
    BY <1>1, <1>4 DEF Writes
  <2>2. req[t].new \in Tokens /\ req[t].family \in Families /\ Issues(t)
    BY <1>1, <1>3, <1>4 DEF Issues
  <2>3. n \in Rows
    BY <1>2, <2>2 DEF NewRow, Rows, Requests
  <2>9. n # None
    BY <2>3, NoneAssumption
  <2>4. token'[req[t].new] = n /\ \A k \in Tokens : k # req[t].new => token'[k] = token[k]
    BY <2>1, <2>2, <1>t
  <2>5. Put(t)
    BY <1>4, <2>2, <2>3, <2>4, <2>9 DEF Put, NewRow
  <2>6. \A k \in Tokens : ~Hits(t, k)
    BY <1>4 DEF Hits
  <2>7. token' \in [Tokens -> Rows \cup {None}]
    BY <2>1, <2>3, <1>t
  <2>8. QED
    BY <2>2, <2>4, <2>5, <2>6, <2>7
<1>5. CASE req[t].plan = "rotate"
  <2>1. token' = [Revoke({req[t].presented}) EXCEPT ![req[t].new] = m]
    BY <1>1, <1>5 DEF Writes, Rotated
  <2>2. req[t].new \in Tokens /\ req[t].family \in Families /\ Issues(t)
    BY <1>1, <1>3, <1>5 DEF Issues
  <2>3. token[req[t].presented] \in Rows
    BY <1>3, <1>5, <1>t
  <2>4. m \in Rows
    BY <2>2, <2>3 DEF NewRow, Rows
  <2>12. m # None
    BY <2>4, NoneAssumption
  <2> DEFINE ks == {req[t].presented}
  <2>13. \A k \in ks : k \in Tokens => token[k] # None
    BY <1>3, <1>5
  <2>14. \A k : k \in ks <=> k = req[t].presented
    OBVIOUS
  <2>15. token' = [Revoke(ks) EXCEPT ![req[t].new] = m]
    BY <2>1
  <2> HIDE DEF ks
  <2>5. /\ Revoke(ks) \in [Tokens -> Rows \cup {None}]
        /\ \A k \in Tokens :
                 IF k \in ks
                 THEN /\ token[k] \in Rows /\ Revoke(ks)[k] \in Rows /\ Revoke(ks)[k] # None
                      /\ Revoke(ks)[k].family = token[k].family
                      /\ Revoke(ks)[k].pw = token[k].pw
                      /\ Revoke(ks)[k].expired = token[k].expired
                      /\ Revoke(ks)[k].revoked = TRUE
                 ELSE Revoke(ks)[k] = token[k]
    BY <2>13, Revoking
  <2>6. /\ token'[req[t].new] = m
        /\ \A k \in Tokens : k # req[t].new => token'[k] = Revoke(ks)[k]
    BY <2>15, <2>2, <2>5
  <2>7. Put(t)
    BY <1>5, <2>2, <2>4, <2>6, <2>12 DEF Put, NewRow
  <2>8. \A k \in Tokens : Hits(t, k) <=> k = req[t].presented
    BY <1>5 DEF Hits
  <2>9. \A k \in Tokens : k # req[t].new =>
           IF Hits(t, k) THEN Voided(k) ELSE token'[k] = token[k]
    BY <1>3, <1>5, <2>5, <2>6, <2>8, <2>14 DEF Voided
  <2>10. token' \in [Tokens -> Rows \cup {None}]
    BY <2>15, <2>4, <2>5
  <2>11. QED
    BY <2>2, <2>7, <2>9, <2>10
<1>6. CASE req[t].plan \in {"end", "burn", "change"}
  <2> DEFINE ks == {k \in Tokens : IsLive(k)
                       /\ (req[t].family # None => token[k].family = req[t].family)}
  <2>1. token' = Revoke(ks)
    BY <1>1, <1>6 DEF Writes, Ends, Ended
  <2>2. \A k \in Tokens : k \in ks <=> Hits(t, k)
    BY <1>6 DEF Hits
  <2>3. \A k \in ks : k \in Tokens => token[k] # None
    BY DEF IsLive
  <2> HIDE DEF ks
  <2>4. /\ Revoke(ks) \in [Tokens -> Rows \cup {None}]
        /\ \A k \in Tokens :
                 IF k \in ks
                 THEN /\ token[k] \in Rows /\ Revoke(ks)[k] \in Rows /\ Revoke(ks)[k] # None
                      /\ Revoke(ks)[k].family = token[k].family
                      /\ Revoke(ks)[k].pw = token[k].pw
                      /\ Revoke(ks)[k].expired = token[k].expired
                      /\ Revoke(ks)[k].revoked = TRUE
                 ELSE Revoke(ks)[k] = token[k]
    BY <2>3, Revoking
  <2>5. ~Issues(t)
    BY <1>6 DEF Issues
  <2>6. \A k \in Tokens : IF Hits(t, k) THEN Voided(k) ELSE token'[k] = token[k]
    BY <2>1, <2>2, <2>3, <2>4 DEF Voided
  <2>7. QED
    BY <2>1, <2>4, <2>5, <2>6
<1>7. CASE req[t].plan = "expire"
  <2>1. token' = Revoke({req[t].presented})
    BY <1>1, <1>7 DEF Writes
  <2> DEFINE ks == {req[t].presented}
  <2>2. \A k \in ks : k \in Tokens => token[k] # None
    BY <1>3, <1>7
  <2>14. \A k : k \in ks <=> k = req[t].presented
    OBVIOUS
  <2>15. token' = Revoke(ks)
    BY <2>1
  <2> HIDE DEF ks
  <2>3. /\ Revoke(ks) \in [Tokens -> Rows \cup {None}]
        /\ \A k \in Tokens :
                 IF k \in ks
                 THEN /\ token[k] \in Rows /\ Revoke(ks)[k] \in Rows /\ Revoke(ks)[k] # None
                      /\ Revoke(ks)[k].family = token[k].family
                      /\ Revoke(ks)[k].pw = token[k].pw
                      /\ Revoke(ks)[k].expired = token[k].expired
                      /\ Revoke(ks)[k].revoked = TRUE
                 ELSE Revoke(ks)[k] = token[k]
    BY <2>2, Revoking
  <2>4. ~Issues(t) /\ \A k \in Tokens : Hits(t, k) <=> k = req[t].presented
    BY <1>7 DEF Hits, Issues
  <2>5. \A k \in Tokens : IF Hits(t, k) THEN Voided(k) ELSE token'[k] = token[k]
    BY <2>15, <2>2, <2>3, <2>4, <2>14 DEF Voided
  <2>6. QED
    BY <2>15, <2>3, <2>4, <2>5
<1>8. QED
  BY <1>1, <1>4, <1>5, <1>6, <1>7 DEF Writes

\* What else a commit does.
LEMMA CommitFrame ==
    ASSUME TypeOK, PlansFit, NEW t \in Tabs, Commit(t)
    PROVE  /\ \A u \in Tabs \ {t} : Same(u)
           /\ Busy(t) /\ req[t] \in Requests /\ req[t].plan # "unread" /\ req[t].commit = "todo"
           /\ Ending(t, "done")
           /\ req[t].plan \in {"end", "burn", "change"} =>
                 \A u \in Tabs \ {t} :
                    Issues(u) /\ (req[t].family # None => req[u].family = req[t].family)
                       => req'[u].stale = TRUE
           /\ ended' = IF req[t].plan \in {"end", "burn"} THEN ended \cup {req[t].family}
                       ELSE IF req[t].plan = "change"
                       THEN ended \cup {token[k].family : k \in {k \in Tokens : IsLive(k)}}
                       ELSE ended
           /\ late' = IF Issues(t) /\ (req[t].stale \/ (req[t].plan = "rotate" /\ req[t].presented \in late))
                      THEN late \cup {req[t].new} ELSE late
           /\ UNCHANGED <<next, cookie, disturbed, left>>
           /\ TypeOK'
<1>t. /\ token \in [Tokens -> Rows \cup {None}] /\ req \in [Tabs -> Requests \cup {None}]
      /\ ended \subseteq Families /\ late \subseteq Tokens /\ passwords \in Nat
      /\ hash \in Nat /\ outdated \in BOOLEAN /\ undone \in BOOLEAN
  BY DEF TypeOK
<1>1. /\ Busy(t) /\ req[t].plan # "unread" /\ req[t].commit = "todo" /\ Writes(t)
      /\ UNCHANGED <<next, cookie, disturbed, left>>
  BY DEF Commit, MayCommit
<1>2. req[t] \in Requests
  BY <1>1, <1>t DEF Busy
<1> DEFINE reqs == IF req[t].plan \in {"end", "burn", "change"} THEN Overtaken(t) ELSE req
<1>3. /\ reqs \in [Tabs -> Requests \cup {None}] /\ reqs[t] = req[t]
      /\ \A u \in Tabs \ {t} :
            IF /\ req[t].plan \in {"end", "burn", "change"} /\ Issues(u)
               /\ req[t].family # None => req[u].family = req[t].family
            THEN reqs[u] = [req[u] EXCEPT !.stale = TRUE] ELSE reqs[u] = req[u]
  <2>1. ASSUME NEW u \in Tabs, Busy(u)
        PROVE  [req[u] EXCEPT !.stale = TRUE] \in Requests
    <3>1. req[u] \in Requests
      BY <2>1, <1>t DEF Busy
    <3>2. QED
      BY <3>1 DEF Requests
  <2>2. Overtaken(t) \in [Tabs -> Requests \cup {None}]
    BY <2>1, <1>t DEF Overtaken
  <2>3. QED
    BY <2>2, <1>t DEF Overtaken, Issues
<1>4. req' = [reqs EXCEPT ![t] = After([@ EXCEPT !.commit = "done"])]
  BY DEF Commit
<1> HIDE DEF reqs
<1>5. [req[t] EXCEPT !.commit = "done"] = [req[t] EXCEPT !.commit = "done", !.answered = req[t].answered]
  BY <1>2 DEF Requests
<1>6. req' = [reqs EXCEPT ![t] =
                After([req[t] EXCEPT !.commit = "done", !.answered = req[t].answered])]
  BY <1>3, <1>4, <1>5
<1>7. req[t].answered \in BOOLEAN
  BY <1>2 DEF Requests
<1>8. /\ req' \in [Tabs -> Requests \cup {None}]
      /\ \A u \in Tabs \ {t} : req'[u] = reqs[u]
      /\ IF req[t].answered /\ "done" # "todo" THEN req'[t] = None
         ELSE Core(t) /\ req'[t].commit = "done" /\ req'[t].answered = req[t].answered
  <2>1. /\ req'[t] = After([req[t] EXCEPT !.commit = "done", !.answered = req[t].answered])
        /\ \A u \in Tabs \ {t} : req'[u] = reqs[u]
    BY <1>3, <1>6
  <2>2. /\ req'[t] \in Requests \cup {None}
        /\ IF req[t].answered /\ "done" # "todo" THEN req'[t] = None
           ELSE Core(t) /\ req'[t].commit = "done" /\ req'[t].answered = req[t].answered
    BY <1>1, <1>7, <2>1, Leaves
  <2>3. QED
    BY <1>3, <1>6, <2>1, <2>2
<1>9. ASSUME NEW u \in Tabs \ {t}
      PROVE  /\ Same(u)
             /\ /\ req[t].plan \in {"end", "burn", "change"} /\ Issues(u)
                /\ req[t].family # None => req[u].family = req[t].family
                => req'[u].stale = TRUE
  <2>1. CASE req'[u] = req[u] /\ ~(/\ req[t].plan \in {"end", "burn", "change"} /\ Issues(u)
                                   /\ req[t].family # None => req[u].family = req[t].family)
    BY <2>1 DEF Same, Core, Busy
  <2>2. CASE req'[u] = [req[u] EXCEPT !.stale = TRUE] /\ Busy(u)
    <3>1. req[u] \in Requests
      BY <2>2, <1>t DEF Busy
    <3>2. req'[u] \in Requests
      BY <2>2, <3>1 DEF Requests
    <3>3. req'[u] # None
      BY <3>2, NoneAssumption
    <3>4. /\ req'[u].op = req[u].op /\ req'[u].presented = req[u].presented
          /\ req'[u].pw = req[u].pw /\ req'[u].plan = req[u].plan
          /\ req'[u].family = req[u].family /\ req'[u].new = req[u].new
          /\ req'[u].stale = TRUE /\ req'[u].commit = req[u].commit
          /\ req'[u].answered = req[u].answered
      BY <2>2, <3>1 DEF Requests
    <3>5. QED
      BY <2>2, <3>3, <3>4 DEF Same, Core
  <2>3. QED
    BY <1>3, <1>8, <2>1, <2>2 DEF Issues
<1>10. Ending(t, "done")
  BY <1>7, <1>8 DEF Ending
<1>11. /\ req[t].plan \in {"end", "burn"} => req[t].family # None
       /\ req[t].plan = "change" => req[t].family = None
  BY <1>1 DEF PlansFit
<1>12. ended' = IF req[t].plan \in {"end", "burn"} THEN ended \cup {req[t].family}
                ELSE IF req[t].plan = "change"
                THEN ended \cup {token[k].family : k \in {k \in Tokens : IsLive(k)}}
                ELSE ended
  BY <1>1, <1>11 DEF Writes, Ends
<1>13. late' = IF Issues(t) /\ (req[t].stale \/ (req[t].plan = "rotate" /\ req[t].presented \in late))
               THEN late \cup {req[t].new} ELSE late
  BY <1>1 DEF Writes, Ends, Issues
<1>14. TypeOK'
  <2>1. ended' \subseteq Families
    <3>1. \A k \in Tokens : IsLive(k) => token[k].family \in Families
      BY <1>t DEF IsLive, Rows
    <3>2. req[t].plan \in {"end", "burn"} => req[t].family \in Families
      BY <1>2, <1>11 DEF Requests
    <3>3. QED
      BY <1>t, <1>12, <3>1, <3>2
  <2>2. late' \subseteq Tokens
    <3>1. Issues(t) => req[t].new \in Tokens
      BY <1>1, <1>2 DEF PlansFit, Requests, Issues
    <3>2. QED
      BY <1>t, <1>13, <3>1
  <2>3. hash' \in Nat /\ passwords' \in Nat
    <3>1. req[t].pw \in Nat
      BY <1>2 DEF Requests
    <3>2. QED
      BY <1>1, <1>t, <3>1 DEF Writes
  <2>4. outdated' \in BOOLEAN
    BY <1>1, <1>t DEF Writes
  <2>5. undone' \in BOOLEAN
    BY <1>1, <1>t DEF Writes
  <2>6. token' \in [Tokens -> Rows \cup {None}]
    BY CommitRows
  <2>7. QED
    BY <1>1, <1>8, <2>1, <2>2, <2>3, <2>4, <2>5, <2>6 DEF TypeOK
<1>15. QED
  BY <1>1, <1>2, <1>9, <1>10, <1>12, <1>13, <1>14

LEMMA ExpireRows ==
    ASSUME TypeOK, Expire
    PROVE  /\ \A k \in Tokens :
                 IF token[k] = None THEN token'[k] = None
                 ELSE /\ token'[k] # None /\ token'[k].family = token[k].family
                      /\ token'[k].pw = token[k].pw /\ token'[k].revoked = token[k].revoked
                      /\ token'[k].expired = TRUE
           /\ UNCHANGED <<hash, outdated, req, next, cookie, passwords, ended, late, disturbed, undone>>
           /\ TypeOK'
<1>t. token \in [Tokens -> Rows \cup {None}] /\ left \in [Events -> Nat]
  BY DEF TypeOK
<1>1. ASSUME NEW k \in Tokens, token[k] # None
      PROVE  LET r == [token[k] EXCEPT !.expired = TRUE] IN
             /\ r \in Rows /\ r # None
             /\ r.family = token[k].family /\ r.pw = token[k].pw
             /\ r.revoked = token[k].revoked /\ r.expired = TRUE
  <2>1. token[k] \in Rows
    BY <1>1, <1>t
  <2>2. [token[k] EXCEPT !.expired = TRUE] \in Rows
    BY <2>1 DEF Rows
  <2>3. [token[k] EXCEPT !.expired = TRUE] # None
    BY <2>2, NoneAssumption
  <2>4. QED
    BY <2>1, <2>2, <2>3 DEF Rows
<1>2. /\ token' \in [Tokens -> Rows \cup {None}]
      /\ \A k \in Tokens :
            token'[k] = IF token[k] = None THEN None ELSE [token[k] EXCEPT !.expired = TRUE]
  BY <1>1 DEF Expire
<1>3. left' \in [Events -> Nat]
  BY <1>t, Spends DEF Expire, Events
<1>4. UNCHANGED <<hash, outdated, req, next, cookie, passwords, ended, late, disturbed, undone>>
  BY DEF Expire
<1>5. TypeOK'
  BY <1>2, <1>3, <1>4 DEF TypeOK
<1>6. QED
  BY <1>1, <1>2, <1>4, <1>5

\* No step forgets a row, or changes whose it is.
LEMMA Growing ==
    ASSUME TypeOK, PlansFit, NumbersAreFresh, Step
    PROVE  TypeOK' /\ \A k \in Tokens : Grows(k)
<1>1. CASE Expire
  <2>1. \A k \in Tokens : Grows(k)
    BY <1>1, ExpireRows DEF Grows
  <2>2. QED
    BY <1>1, <2>1, ExpireRows
<1>2. CASE UNCHANGED vars
  BY <1>2 DEF vars, TypeOK, Grows
<1>3. ASSUME token' = token PROVE \A k \in Tokens : Grows(k)
  BY <1>3 DEF Grows
<1>4. ASSUME NEW t \in Tabs, Sent(t) PROVE TypeOK' /\ \A k \in Tokens : Grows(k)
  BY <1>3, <1>4, SendFrame
<1>5. ASSUME NEW t \in Tabs, NEW plan \in Plans, NEW family \in Families \cup {None},
             NEW new \in Tokens \cup {None}, NEW rehash \in BOOLEAN,
             Read(t, plan, family, new, rehash)
      PROVE  TypeOK' /\ \A k \in Tokens : Grows(k)
  <2>1. Decided(t, plan, family, new) /\ TypeOK'
    BY <1>5, ReadFrame
  <2>2. QED
    BY <1>3, <2>1 DEF Decided
<1>6. ASSUME NEW t \in Tabs, CommitFails(t) PROVE TypeOK' /\ \A k \in Tokens : Grows(k)
  BY <1>3, <1>6, FailFrame
<1>7. ASSUME NEW t \in Tabs, Answer(t) \/ AnswerLost(t) PROVE TypeOK' /\ \A k \in Tokens : Grows(k)
  BY <1>3, <1>7, AnswerFrame
<1>8. ASSUME NEW t \in Tabs, Commit(t) PROVE TypeOK' /\ \A k \in Tokens : Grows(k)
  <2>1. TypeOK' /\ Busy(t) /\ req[t].commit = "todo"
    BY <1>8, CommitFrame
  <2>2. Issues(t) => token[req[t].new] = None
    BY <2>1 DEF NumbersAreFresh
  <2>3. \A k \in Tokens : Voided(k) => Grows(k)
    BY DEF Voided, Grows
  <2>4. ASSUME NEW k \in Tokens PROVE Grows(k)
    <3>1. CASE Issues(t) /\ k = req[t].new
      BY <2>2, <3>1 DEF Grows
    <3>2. CASE ~(Issues(t) /\ k = req[t].new)
      <4>1. Voided(k) \/ token'[k] = token[k]
        BY <1>8, <3>2, CommitRows
      <4>2. QED
        BY <4>1, <2>3 DEF Grows
    <3>3. QED
      BY <3>1, <3>2
  <2>5. QED
    BY <2>1, <2>4
<1>9. QED
  BY <1>1, <1>2, <1>4, <1>5, <1>6, <1>7, <1>8 DEF Step

\* PlansFit for one request.
Fits(t) ==
    Busy(t) =>
       LET r == req[t] IN
       /\ r.plan = "unread" => r.family = None /\ r.commit = "todo" /\ ~r.answered
       /\ r.op = "refresh" => r.presented # None
       /\ r.new # None <=> Issues(t)
       /\ r.plan \in {"burn", "expire", "end"} => r.family # None
       /\ r.plan = "rotate" => r.op = "refresh"
       /\ r.plan \in {"rotate", "expire"} =>
             /\ r.presented # None /\ token[r.presented] # None
             /\ token[r.presented].family = r.family
             /\ r.plan = "expire" => token[r.presented].expired
       /\ r.plan = "issue" => r.op = "login" /\ r.family = r.new
       /\ r.plan = "change" => r.op = "password" /\ r.family = None
       /\ r.answered => r.commit = "todo"

\* What a handler goes by holds until it is done.
LEMMA StaysFit ==
    ASSUME TypeOK, NEW u \in Tabs, Fits(u), Core(u), \A k \in Tokens : Grows(k),
           req'[u].answered => req'[u].commit = "todo",
           req[u].plan = "unread" => req'[u].commit = "todo" /\ ~req'[u].answered
    PROVE  Fits(u)'
<1>1. req[u] \in Requests
  BY DEF TypeOK, Core, Busy
<1>2. req[u].presented \in Tokens \cup {None}
  BY <1>1 DEF Requests
<1>3. Busy(u) /\ (Issues(u)' <=> Issues(u))
  BY DEF Core, Issues, Busy
<1>4. req[u].plan \in {"rotate", "expire"} =>
         /\ req[u].presented \in Tokens /\ token[req[u].presented] # None
         /\ token[req[u].presented].family = req[u].family
         /\ req[u].plan = "expire" => token[req[u].presented].expired
  BY <1>2, <1>3 DEF Fits
<1>5. req[u].plan \in {"rotate", "expire"} =>
         /\ req[u].presented # None /\ token'[req[u].presented] # None
         /\ token'[req[u].presented].family = req[u].family
         /\ req[u].plan = "expire" => token'[req[u].presented].expired
  BY <1>3, <1>4 DEF Grows, Fits
<1>6. QED
  BY <1>3, <1>5 DEF Fits, Core

LEMMA PlansStayFit ==
    ASSUME TypeOK, PlansFit, NumbersAreFresh, Step
    PROVE  PlansFit'
<1>g. TypeOK' /\ \A k \in Tokens : Grows(k)
  BY Growing
<1>f. \A u \in Tabs : Fits(u)
  BY DEF PlansFit, Fits
<1>1. ASSUME NEW u \in Tabs, Same(u) PROVE Fits(u)'
  <2>1. CASE req'[u] = None
    BY <2>1 DEF Fits, Busy
  <2>2. CASE Core(u) /\ req'[u].commit = req[u].commit /\ req'[u].answered = req[u].answered
    <3>1. /\ req'[u].answered => req'[u].commit = "todo"
          /\ req[u].plan = "unread" => req'[u].commit = "todo" /\ ~req'[u].answered
      BY <1>f, <2>2 DEF Fits, Core
    <3>2. QED
      BY <1>f, <1>g, <2>2, <3>1, StaysFit
  <2>3. QED
    BY <1>1, <2>1, <2>2 DEF Same
<1>2. CASE Expire \/ UNCHANGED vars
  <2>1. req' = req
    BY <1>2 DEF Expire, vars
  <2>2. \A u \in Tabs : Same(u)
    BY <2>1 DEF Same, Core, Busy
  <2>3. QED
    BY <1>1, <2>2 DEF PlansFit, Fits
<1>3. ASSUME NEW t \in Tabs, Sent(t) PROVE PlansFit'
  <2>1. Fits(t)'
    BY <1>3, SendFrame DEF Fits, Issues
  <2>2. \A u \in Tabs : Fits(u)'
    BY <1>1, <1>3, <2>1, SendFrame
  <2>3. QED
    BY <2>2 DEF PlansFit, Fits
<1>4. ASSUME NEW t \in Tabs, NEW plan \in Plans, NEW family \in Families \cup {None},
             NEW new \in Tokens \cup {None}, NEW rehash \in BOOLEAN,
             Read(t, plan, family, new, rehash)
      PROVE  PlansFit'
  <2>0. Decided(t, plan, family, new)
    BY <1>4, ReadFrame
  <2>1. Fits(t)'
    <3>1. Busy(t) /\ Fits(t)
      BY <1>f, <2>0 DEF Decided
    <3>2. \A k \in Tokens : token[k] # None => token[k].family # None
      BY TokensAssumption DEF TypeOK, Rows, Families
    <3>3. plan \in {"end", "burn", "expire"} => family # None
      BY <1>4, <3>2 DEF Read
    <3>4. plan \in {"rotate", "expire"} =>
             /\ req[t].presented # None /\ token[req[t].presented] # None
             /\ token[req[t].presented].family = family
             /\ plan = "expire" => token[req[t].presented].expired
             /\ req[t].op = "refresh"
      BY <1>4, TokensAssumption DEF Read, IsLive
    <3>5. new # None <=> plan \in {"rotate", "issue"}
      BY <1>4, TokensAssumption DEF Read
    <3>6. /\ plan = "issue" => req[t].op = "login" /\ family = new
          /\ plan = "change" => req[t].op = "password" /\ family = None
          /\ plan # "unread"
      BY <1>4 DEF Read
    <3>7. Busy(t)' /\ (Issues(t)' <=> plan \in {"rotate", "issue"})
      BY <2>0 DEF Decided, Busy, Issues
    <3>8. QED
      BY <2>0, <3>1, <3>3, <3>4, <3>5, <3>6, <3>7 DEF Decided, Fits
  <2>2. \A u \in Tabs : Fits(u)'
    BY <1>1, <2>0, <2>1 DEF Decided
  <2>3. QED
    BY <2>2 DEF PlansFit, Fits
<1>5. ASSUME NEW t \in Tabs, NEW c \in {"done", "failed"}, Ending(t, c),
             req[t].plan # "unread", Busy(t), \A u \in Tabs \ {t} : Same(u)
      PROVE  PlansFit'
  <2>1. Fits(t)'
    <3>1. CASE req'[t] = None
      BY <3>1 DEF Fits, Busy
    <3>2. CASE Core(t) /\ req'[t].answered = FALSE
      BY <1>f, <1>g, <1>5, <3>2, StaysFit
    <3>3. QED
      BY <1>5, <3>1, <3>2 DEF Ending
  <2>2. \A u \in Tabs : Fits(u)'
    BY <1>1, <1>5, <2>1
  <2>3. QED
    BY <2>2 DEF PlansFit, Fits
<1>6. ASSUME NEW t \in Tabs, Commit(t) PROVE PlansFit'
  BY <1>5, <1>6, CommitFrame
<1>7. ASSUME NEW t \in Tabs, CommitFails(t) PROVE PlansFit'
  BY <1>5, <1>7, FailFrame
<1>8. ASSUME NEW t \in Tabs, Answer(t) \/ AnswerLost(t) PROVE PlansFit'
  <2>0. Answering(t) /\ req[t].plan # "unread" /\ \A u \in Tabs \ {t} : Same(u)
    BY <1>8, AnswerFrame
  <2>1. Fits(t)'
    <3>1. CASE req'[t] = None
      BY <3>1 DEF Fits, Busy
    <3>2. CASE Core(t) /\ req'[t].commit = "todo"
      BY <1>f, <1>g, <2>0, <3>2, StaysFit
    <3>3. QED
      BY <2>0, <3>1, <3>2 DEF Answering
  <2>2. \A u \in Tabs : Fits(u)'
    BY <1>1, <2>0, <2>1
  <2>3. QED
    BY <2>2 DEF PlansFit, Fits
<1>9. QED
  BY <1>2, <1>3, <1>4, <1>6, <1>7, <1>8 DEF Step

-----------------------------------------------------------------------------
(***************************************************************************)
(* Numbers.                                                                *)
(***************************************************************************)
RowsAreOld == \A k \in Tokens : token[k] # None => k < next /\ token[k].family < next
EndedAreOld == \A f \in ended : f < next
CookiesAreOld == \A b \in Browsers : cookie[b] # None => cookie[b] < next

\* What a request presents, issues or is about has a number below the next.
IsOld(t) == Busy(t) => \A k \in {req[t].presented, req[t].new, req[t].family} \ {None} : k < next

NewsDiffer == \A t, u \in Tabs : Issues(t) /\ Issues(u) /\ t # u => req[t].new # req[u].new

\* What a request issues is stored by its commit.
IsFresh(t) ==
    Issues(t) =>
       LET k == req[t].new IN
       IF req[t].commit = "done" THEN token[k] # None /\ token[k].family = req[t].family
       ELSE /\ token[k] = None
            /\ req[t].plan = "issue" =>
                 /\ k \notin ended
                 /\ \A l \in Tokens : token[l] # None => token[l].family # k
                 /\ \A u \in Tabs \ {t} : Busy(u) => req[u].family # k

LEMMA FreshParts ==
    NumbersAreFresh <=> /\ RowsAreOld /\ EndedAreOld /\ CookiesAreOld /\ NewsDiffer
                        /\ \A t \in Tabs : IsOld(t)
                        /\ \A t \in Tabs : IsFresh(t)
  BY
     DEF NumbersAreFresh, RowsAreOld, EndedAreOld, CookiesAreOld, NewsDiffer, IsOld, IsFresh

\* What is in a request has its type.
LEMMA RequestTypes ==
    ASSUME TypeOK, NEW t \in Tabs, Busy(t)
    PROVE  /\ req[t] \in Requests
           /\ req[t].presented \in Tokens \cup {None} /\ req[t].new \in Tokens \cup {None}
           /\ req[t].family \in Families \cup {None} /\ req[t].pw \in Nat
           /\ req[t].commit \in {"todo", "done", "failed"} /\ req[t].answered \in BOOLEAN
           /\ req[t].stale \in BOOLEAN
<1>1. req[t] \in Requests
  BY DEF TypeOK, Busy
<1>2. QED
  BY <1>1 DEF Requests

LEMMA TokenTypes ==
    ASSUME TypeOK
    PROVE  /\ next \in Nat /\ Tokens \subseteq Nat \ {0} /\ Families = Tokens /\ None \notin Tokens
           /\ \A k \in Tokens : token[k] # None =>
                 /\ token[k] \in Rows /\ token[k].family \in Tokens
                 /\ token[k].revoked \in BOOLEAN /\ token[k].pw \in Nat
           /\ \A b \in Browsers : cookie[b] \in Tokens \cup {None}
           /\ \A f \in ended : f \in Tokens
  BY TokensAssumption DEF TypeOK, Rows, Families

LEMMA StaysOld ==
    ASSUME TypeOK, TypeOK', NEW u \in Tabs, IsOld(u), Core(u), next' \in {next, next + 1}
    PROVE  IsOld(u)'
<1>1. /\ req[u].presented \in Tokens \cup {None} /\ req[u].new \in Tokens \cup {None}
      /\ req[u].family \in Tokens \cup {None} /\ Busy(u)
  BY RequestTypes DEF Core, Families
<1>2. next \in Nat /\ Tokens \subseteq Nat
  BY TokenTypes
<1>3. \A k \in Tokens : k < next => k < next'
  BY <1>2
<1>4. \A k \in {req[u].presented, req[u].new, req[u].family} \ {None} : k < next /\ k \in Tokens
  BY <1>1 DEF IsOld
<1>5. \A k \in {req'[u].presented, req'[u].new, req'[u].family} \ {None} : k < next'
  BY <1>3, <1>4 DEF Core
<1>6. QED
  BY <1>5 DEF IsOld

\* As long as it is to be written, what a request issues stays its own.
LEMMA StaysFresh ==
    ASSUME TypeOK, NEW u \in Tabs, IsFresh(u), Core(u), Issues(u) => req[u].new \in Tokens,
           \A k \in Tokens : Grows(k),
           req'[u].commit = "done" <=> req[u].commit = "done",
           Issues(u) /\ req[u].commit # "done" => token'[req[u].new] = None,
           Issues(u) /\ req[u].commit # "done" /\ req[u].plan = "issue" =>
              /\ req[u].new \notin ended'
              /\ \A l \in Tokens : token'[l] # None => token'[l].family # req[u].new
              /\ \A v \in Tabs \ {u} : Busy(v)' => req'[v].family # req[u].new
    PROVE  IsFresh(u)'
<1>1. Issues(u)' => Issues(u)
  BY DEF Core, Issues
<1>3. CASE Issues(u) /\ req[u].commit = "done"
  BY <1>3 DEF IsFresh, Core, Grows
<1>4. CASE Issues(u) /\ req[u].commit # "done"
  BY <1>4 DEF IsFresh, Core
<1>5. CASE ~Issues(u)
  BY <1>1, <1>5 DEF IsFresh
<1>6. QED
  BY <1>3, <1>4, <1>5

\* A request that issues nothing with this step.
Calm(u) ==
    \/ req'[u] = None
    \/ Core(u) /\ (Issues(u) => (req'[u].commit = "done" <=> req[u].commit = "done"))
    \/ /\ req'[u].plan = "unread" /\ req'[u].new = None /\ req'[u].family = None
       /\ req'[u].presented = cookie[Browser[u]] /\ Browser[u] \in Browsers

LEMMA FreshCalm ==
    ASSUME TypeOK, TypeOK', PlansFit, NumbersAreFresh, \A k \in Tokens : Grows(k),
           \A k \in Tokens : token[k] = None => token'[k] = None,
           \A u \in Tabs : Calm(u), next' = next, CookiesAreOld',
           \A f \in ended' : \/ f \in ended
                             \/ \E k \in Tokens : token[k] # None /\ token[k].family = f
                             \/ \E v \in Tabs : Busy(v) /\ ~Issues(v) /\ req[v].family = f
    PROVE  NumbersAreFresh'
<1>f. /\ RowsAreOld /\ EndedAreOld /\ CookiesAreOld /\ NewsDiffer
      /\ \A u \in Tabs : IsOld(u)
      /\ \A u \in Tabs : IsFresh(u)
  BY FreshParts
<1>t. /\ next \in Nat /\ Tokens \subseteq Nat \ {0} /\ Families = Tokens /\ None \notin Tokens
      /\ \A k \in Tokens : token[k] # None => token[k].family \in Tokens
      /\ \A b \in Browsers : cookie[b] \in Tokens \cup {None}
  BY TokenTypes
<1>n. ASSUME NEW u \in Tabs, Issues(u) PROVE req[u].new \in Tokens
  <2>1. Busy(u) /\ req[u].new # None
    BY <1>n DEF PlansFit, Issues
  <2>2. QED
    BY <2>1, RequestTypes
<1>1. RowsAreOld'
  BY <1>f DEF RowsAreOld, Grows
<1>2. EndedAreOld'
  <2>1. ASSUME NEW v \in Tabs, Busy(v), req[v].family \in Families PROVE req[v].family < next
    BY <2>1, <1>f, <1>t DEF IsOld
  <2>2. \A f \in ended' : f \in Families
    BY DEF TypeOK
  <2>3. QED
    BY <2>1, <2>2, <1>f DEF EndedAreOld, RowsAreOld
<1>3. NewsDiffer'
  <2>1. \A u \in Tabs : Issues(u)' => Core(u) /\ Issues(u)
    BY DEF Calm, Core, Issues, Busy
  <2>2. QED
    BY <1>f, <2>1 DEF NewsDiffer, Core
<1>4. ASSUME NEW u \in Tabs PROVE IsOld(u)'
  <2>1. CASE req'[u] = None
    BY <2>1 DEF IsOld, Busy
  <2>2. CASE Core(u)
    BY <2>2, <1>f, StaysOld
  <2>3. CASE /\ req'[u].plan = "unread" /\ req'[u].new = None /\ req'[u].family = None
             /\ req'[u].presented = cookie[Browser[u]] /\ Browser[u] \in Browsers
    BY <2>3, <1>f DEF IsOld, CookiesAreOld
  <2>4. QED
    BY <2>1, <2>2, <2>3 DEF Calm
<1>5. ASSUME NEW u \in Tabs PROVE IsFresh(u)'
  <2>1. CASE ~Issues(u)'
    BY <2>1 DEF IsFresh
  <2>2. CASE Issues(u)'
    <3>1. /\ Core(u) /\ Issues(u)
          /\ req'[u].commit = "done" <=> req[u].commit = "done"
      BY <2>2 DEF Calm, Core, Issues, Busy
    <3>2. req[u].new \in Tokens
      BY <1>n, <3>1
    <3>3. req[u].commit # "done" => token'[req[u].new] = None
      BY <1>f, <3>1, <3>2 DEF IsFresh
    <3>4. ASSUME req[u].commit # "done", req[u].plan = "issue"
          PROVE  /\ req[u].new \notin ended'
                 /\ \A l \in Tokens : token'[l] # None => token'[l].family # req[u].new
                 /\ \A v \in Tabs \ {u} : Busy(v)' => req'[v].family # req[u].new
      <4>1. /\ req[u].new \notin ended
            /\ \A l \in Tokens : token[l] # None => token[l].family # req[u].new
            /\ \A v \in Tabs \ {u} : Busy(v) => req[v].family # req[u].new
        BY <1>f, <3>1, <3>4 DEF IsFresh
      <4>2. req[u].new \notin ended'
        BY <3>1, <4>1
      <4>3. \A l \in Tokens : token'[l] # None => token'[l].family # req[u].new
        BY <4>1 DEF Grows
      <4>4. \A v \in Tabs \ {u} : Busy(v)' => req'[v].family # req[u].new
        BY <1>t, <3>2, <4>1 DEF Calm, Core, Busy
      <4>5. QED
        BY <4>2, <4>3, <4>4
    <3>5. QED
      BY <1>f, <3>1, <3>2, <3>3, <3>4, StaysFresh
  <2>3. QED
    BY <2>1, <2>2
<1>6. QED
  BY <1>1, <1>2, <1>3, <1>4, <1>5
     DEF NumbersAreFresh, RowsAreOld, EndedAreOld, CookiesAreOld, NewsDiffer, IsOld, IsFresh

LEMMA FreshRead ==
    ASSUME TypeOK, TypeOK', PlansFit, NumbersAreFresh, NEW t \in Tabs, NEW plan \in Plans,
           NEW family \in Families \cup {None}, NEW new \in Tokens \cup {None}, NEW rehash \in BOOLEAN,
           Read(t, plan, family, new, rehash), Decided(t, plan, family, new)
    PROVE  NumbersAreFresh'
<1>f. /\ RowsAreOld /\ EndedAreOld /\ CookiesAreOld /\ NewsDiffer
      /\ \A u \in Tabs : IsOld(u)
      /\ \A u \in Tabs : IsFresh(u)
  BY FreshParts
<1>t. /\ next \in Nat /\ Tokens \subseteq Nat \ {0} /\ Families = Tokens /\ None \notin Tokens
      /\ \A k \in Tokens : token[k] # None => token[k].family \in Tokens
      /\ \A b \in Browsers : cookie[b] \in Tokens \cup {None}
      /\ \A f \in ended : f \in Tokens
  BY TokenTypes
<1>r. /\ \A u \in Tabs \ {t} : Same(u)
      /\ Busy(t) /\ req[t] \in Requests /\ req'[t] # None
      /\ req'[t].presented = req[t].presented /\ req'[t].plan = plan
      /\ req'[t].family = family /\ req'[t].new = new
      /\ req'[t].commit = (IF plan = "nothing" THEN "done" ELSE "todo")
      /\ token' = token /\ cookie' = cookie /\ ended' = ended
  BY DEF Decided
<1>n. ASSUME NEW u \in Tabs, Issues(u) PROVE req[u].new \in Tokens /\ Busy(u) /\ req[u].new < next
  <2>1. Busy(u) /\ req[u].new # None
    BY <1>n DEF PlansFit, Issues
  <2>2. QED
    BY <2>1, <1>f, RequestTypes DEF IsOld
<1>p. /\ next' \in {next, next + 1}
      /\ plan \in {"rotate", "issue"} => new = next /\ next \in Tokens /\ next' = next + 1
      /\ plan \notin {"rotate", "issue"} => new = None
  BY DEF Read
<1>q. \/ family = None
      \/ plan = "issue" /\ family = next
      \/ plan # "issue" /\ \E k \in Tokens : token[k] # None /\ family = token[k].family
  BY DEF Read, IsLive
<1>m. \A k \in Tokens : k < next => k < next'
  BY <1>t, <1>p
<1>c. \A u \in Tabs \ {t} : Busy(u)' => Core(u) /\ req'[u].commit = req[u].commit
  BY <1>r DEF Same, Busy
<1>g. \A k \in Tokens : Grows(k)
  BY <1>r DEF Grows
<1>1. RowsAreOld'
  BY <1>f, <1>m, <1>r, <1>t DEF RowsAreOld
<1>2. EndedAreOld' /\ CookiesAreOld'
  BY <1>f, <1>m, <1>r, <1>t DEF EndedAreOld, CookiesAreOld
<1>3. NewsDiffer'
  <2>1. ASSUME NEW u \in Tabs \ {t}, Issues(u)'
        PROVE  /\ Issues(u) /\ req'[u].new = req[u].new
               /\ req[u].new \in Tokens /\ req[u].new < next
    BY <1>c, <1>n, <2>1 DEF Issues, Core, Busy
  <2>2. Issues(t)' => req'[t].new = next
    BY <1>p, <1>r DEF Issues
  <2>3. \A k \in Tokens : k < next => k # next
    BY <1>t
  <2>4. QED
    BY <1>f, <2>1, <2>2, <2>3 DEF NewsDiffer
<1>4. ASSUME NEW u \in Tabs PROVE IsOld(u)'
  <2>1. CASE u # t
    <3>1. CASE ~Busy(u)'
      BY <3>1 DEF IsOld
    <3>2. CASE Core(u)
      BY <3>2, <1>f, <1>p, StaysOld
    <3>3. QED
      BY <1>c, <2>1, <3>1, <3>2
  <2>2. CASE u = t
    <3>1. req[t].presented # None => req[t].presented < next'
      BY <1>f, <1>m, <1>r, RequestTypes DEF IsOld
    <3>2. new # None => new < next'
      BY <1>p, <1>t
    <3>3. family # None => family < next'
      <4>1. CASE plan = "issue" /\ family = next
        BY <1>p, <1>t, <4>1
      <4>2. CASE \E k \in Tokens : token[k] # None /\ family = token[k].family
        BY <1>f, <1>m, <1>t, <4>2 DEF RowsAreOld
      <4>3. QED
        BY <1>q, <4>1, <4>2
    <3>4. QED
      BY <1>r, <2>2, <3>1, <3>2, <3>3 DEF IsOld
  <2>3. QED
    BY <2>1, <2>2
<1>5. IsFresh(t)'
  <2>1. CASE plan \notin {"rotate", "issue"}
    BY <1>r, <2>1 DEF IsFresh, Issues
  <2>2. CASE plan \in {"rotate", "issue"}
    <3>1. new = next /\ next \in Tokens /\ ~(next < next)
      BY <1>p, <1>t, <2>2
    <3>2. token[next] = None
      BY <1>f, <3>1 DEF RowsAreOld
    <3>3. next \notin ended /\ \A l \in Tokens : token[l] # None => token[l].family # next
      BY <1>f, <3>1 DEF RowsAreOld, EndedAreOld
    <3>4. \A u \in Tabs \ {t} : Busy(u)' => req'[u].family # next
      BY <1>c, <1>f, <1>t, <3>1 DEF IsOld, Core
    <3>5. QED
      BY <1>r, <2>2, <3>1, <3>2, <3>3, <3>4 DEF IsFresh
  <2>3. QED
    BY <2>1, <2>2
<1>6. ASSUME NEW u \in Tabs \ {t} PROVE IsFresh(u)'
  <2>1. CASE ~Issues(u)'
    BY <2>1 DEF IsFresh
  <2>2. CASE Issues(u)'
    <3>1. Core(u) /\ Issues(u) /\ req'[u].commit = req[u].commit
      BY <1>c, <2>2 DEF Core, Issues, Busy
    <3>2. req[u].new \in Tokens /\ req[u].new < next
      BY <1>n, <3>1
    <3>3. req[u].commit # "done" => token'[req[u].new] = None
      BY <1>f, <1>r, <3>1 DEF IsFresh
    <3>4. ASSUME req[u].commit # "done", req[u].plan = "issue"
          PROVE  /\ req[u].new \notin ended'
                 /\ \A l \in Tokens : token'[l] # None => token'[l].family # req[u].new
                 /\ \A v \in Tabs \ {u} : Busy(v)' => req'[v].family # req[u].new
      <4>1. /\ req[u].new \notin ended
            /\ \A l \in Tokens : token[l] # None => token[l].family # req[u].new
            /\ \A v \in Tabs \ {u} : Busy(v) => req[v].family # req[u].new
        BY <1>f, <3>1, <3>4 DEF IsFresh
      <4>2. family # req[u].new
        BY <1>q, <1>t, <3>2, <4>1
      <4>3. \A v \in Tabs \ {u} : Busy(v)' => req'[v].family # req[u].new
        BY <1>c, <1>r, <4>1, <4>2 DEF Core
      <4>4. QED
        BY <1>r, <4>1, <4>3
    <3>5. QED
      BY <1>f, <1>g, <3>1, <3>2, <3>3, <3>4, StaysFresh
  <2>3. QED
    BY <2>1, <2>2
<1>7. QED
  BY <1>1, <1>2, <1>3, <1>4, <1>5, <1>6
     DEF NumbersAreFresh, RowsAreOld, EndedAreOld, CookiesAreOld, NewsDiffer, IsOld, IsFresh

LEMMA FreshIssue ==
    ASSUME TypeOK, TypeOK', PlansFit, NumbersAreFresh, NEW t \in Tabs, Commit(t), Issues(t),
           \A k \in Tokens : Grows(k)
    PROVE  NumbersAreFresh'
<1>f. /\ RowsAreOld /\ EndedAreOld /\ CookiesAreOld /\ NewsDiffer
      /\ \A u \in Tabs : IsOld(u)
      /\ \A u \in Tabs : IsFresh(u)
  BY FreshParts
<1>t. /\ next \in Nat /\ Tokens \subseteq Nat \ {0} /\ Families = Tokens /\ None \notin Tokens
  BY TokenTypes
<1>r. /\ \A u \in Tabs \ {t} : Same(u)
      /\ Busy(t) /\ req[t].commit = "todo" /\ Ending(t, "done")
      /\ next' = next /\ cookie' = cookie /\ ended' = ended
  BY CommitFrame DEF Issues
<1>n. ASSUME NEW u \in Tabs, Issues(u) PROVE req[u].new \in Tokens /\ Busy(u)
  <2>1. Busy(u) /\ req[u].new # None
    BY <1>n DEF PlansFit, Issues
  <2>2. QED
    BY <2>1, RequestTypes
<1>w. /\ Put(t)
      /\ \A k \in Tokens \ {req[t].new} : IF Hits(t, k) THEN Voided(k) ELSE token'[k] = token[k]
  BY CommitRows
<1>c. \A u \in Tabs \ {t} : Busy(u)' => Core(u) /\ req'[u].commit = req[u].commit
  BY <1>r DEF Same, Busy
<1>d. Busy(t)' => Core(t) /\ req'[t].commit = "done"
  BY <1>r DEF Ending, Busy
<1>1. RowsAreOld'
  <2>1. req[t].new < next /\ req[t].family < next
    <3>1. req[t].family \in Tokens
      BY <1>t, <1>w DEF TypeOK, Put, Rows
    <3>2. QED
      BY <3>1, <1>f, <1>n, <1>t DEF IsOld
  <2>2. ASSUME NEW k \in Tokens, token'[k] # None PROVE k < next /\ token'[k].family < next
    <3>1. CASE k = req[t].new
      BY <1>w, <2>1, <3>1 DEF Put
    <3>2. CASE k # req[t].new
      <4>1. token[k] # None /\ token'[k].family = token[k].family
        BY <1>w, <2>2, <3>2 DEF Voided
      <4>2. QED
        BY <1>f, <4>1 DEF RowsAreOld
    <3>3. QED
      BY <3>1, <3>2
  <2>3. QED
    BY <1>r, <2>2 DEF RowsAreOld
<1>2. EndedAreOld' /\ CookiesAreOld'
  BY <1>f, <1>r DEF EndedAreOld, CookiesAreOld
<1>3. \A u \in Tabs : Issues(u)' => Core(u) /\ Issues(u)
  BY <1>c, <1>d DEF Core, Issues, Busy
<1>4. NewsDiffer'
  BY <1>3, <1>f DEF NewsDiffer, Core
<1>5. ASSUME NEW u \in Tabs PROVE IsOld(u)'
  <2>1. CASE ~Busy(u)'
    BY <2>1 DEF IsOld
  <2>2. CASE Core(u)
    BY <2>2, <1>f, <1>r, StaysOld
  <2>3. QED
    BY <2>1, <2>2, <1>c, <1>d
<1>6. IsFresh(t)'
  BY <1>d, <1>w DEF IsFresh, Put, Core, Issues
<1>7. ASSUME NEW u \in Tabs \ {t} PROVE IsFresh(u)'
  <2>1. CASE ~Issues(u)'
    BY <2>1 DEF IsFresh
  <2>2. CASE Issues(u)'
    <3>1. Core(u) /\ Issues(u) /\ req'[u].commit = req[u].commit
      BY <1>c, <1>3, <2>2 DEF Issues
    <3>2. req[u].new \in Tokens /\ req[u].new # req[t].new
      BY <1>f, <1>n, <3>1 DEF NewsDiffer
    <3>3. req[u].commit # "done" => token'[req[u].new] = None
      <4>1. req[u].commit # "done" => token[req[u].new] = None
        BY <1>f, <3>1 DEF IsFresh
      <4>2. QED
        BY <4>1, <1>w, <3>2 DEF Voided
    <3>4. ASSUME req[u].commit # "done", req[u].plan = "issue"
          PROVE  /\ req[u].new \notin ended'
                 /\ \A l \in Tokens : token'[l] # None => token'[l].family # req[u].new
                 /\ \A v \in Tabs \ {u} : Busy(v)' => req'[v].family # req[u].new
      <4>1. /\ req[u].new \notin ended
            /\ \A l \in Tokens : token[l] # None => token[l].family # req[u].new
            /\ \A v \in Tabs \ {u} : Busy(v) => req[v].family # req[u].new
        BY <1>f, <3>1, <3>4 DEF IsFresh
      <4>2. req[t].family # req[u].new
        BY <1>r, <4>1
      <4>3. \A l \in Tokens : token'[l] # None => token'[l].family # req[u].new
        BY <1>w, <4>1, <4>2 DEF Put, Voided
      <4>4. \A v \in Tabs \ {u} : Busy(v)' => req'[v].family # req[u].new
        BY <1>c, <1>d, <4>1 DEF Core
      <4>5. QED
        BY <1>r, <4>1, <4>3, <4>4
    <3>5. QED
      BY <1>f, <3>1, <3>2, <3>3, <3>4, StaysFresh
  <2>3. QED
    BY <2>1, <2>2
<1>8. QED
  BY <1>1, <1>2, <1>4, <1>5, <1>6, <1>7
     DEF NumbersAreFresh, RowsAreOld, EndedAreOld, CookiesAreOld, NewsDiffer, IsOld, IsFresh

LEMMA NumbersStayFresh ==
    ASSUME TypeOK, PlansFit, NumbersAreFresh, Step
    PROVE  NumbersAreFresh'
<1>g. TypeOK' /\ \A k \in Tokens : Grows(k)
  BY Growing
<1>s. \A u \in Tabs : Same(u) => Calm(u)
  BY DEF Same, Calm
<1>b. CookiesAreOld /\ \A u \in Tabs : IsOld(u)
  BY FreshParts
<1>t. None \notin Tokens /\ \A b \in Browsers : cookie[b] \in Tokens \cup {None}
  BY TokenTypes
<1>1. CASE Expire \/ UNCHANGED vars
  <2>1. /\ req' = req /\ next' = next /\ ended' = ended /\ cookie' = cookie
    BY <1>1 DEF Expire, vars
  <2>2. \A u \in Tabs : Calm(u)
    BY <1>s, <2>1 DEF Same, Core, Busy
  <2>3. \A k \in Tokens : token[k] = None => token'[k] = None
    BY <1>1, ExpireRows DEF vars
  <2>4. CookiesAreOld'
    BY <1>b, <2>1 DEF CookiesAreOld
  <2>5. QED
    BY <1>g, <2>1, <2>2, <2>3, <2>4, FreshCalm
<1>2. ASSUME NEW t \in Tabs, Sent(t) PROVE NumbersAreFresh'
  <2>1. /\ \A u \in Tabs \ {t} : Same(u)
        /\ token' = token /\ next' = next /\ ended' = ended /\ cookie' = cookie
    BY <1>2, SendFrame
  <2>2. Calm(t)
    BY <1>2, SendFrame DEF Calm
  <2>3. CookiesAreOld' /\ \A u \in Tabs : Calm(u)
    BY <1>b, <1>s, <2>1, <2>2 DEF CookiesAreOld
  <2>4. QED
    BY <1>g, <2>1, <2>3, FreshCalm
<1>3. ASSUME NEW t \in Tabs, NEW plan \in Plans, NEW family \in Families \cup {None},
             NEW new \in Tokens \cup {None}, NEW rehash \in BOOLEAN,
             Read(t, plan, family, new, rehash)
      PROVE  NumbersAreFresh'
  <2>1. Decided(t, plan, family, new)
    BY <1>3, ReadFrame
  <2>2. QED
    BY <1>3, <1>g, <2>1, FreshRead
<1>4. ASSUME NEW t \in Tabs, CommitFails(t) PROVE NumbersAreFresh'
  <2>1. /\ \A u \in Tabs \ {t} : Same(u)
        /\ Ending(t, "failed") /\ req[t].commit = "todo"
        /\ token' = token /\ next' = next /\ ended' = ended /\ cookie' = cookie
    BY <1>4, FailFrame
  <2>2. Calm(t)
    BY <2>1 DEF Calm, Ending
  <2>3. CookiesAreOld' /\ \A u \in Tabs : Calm(u)
    BY <1>b, <1>s, <2>1, <2>2 DEF CookiesAreOld
  <2>4. QED
    BY <1>g, <2>1, <2>3, FreshCalm
<1>5. ASSUME NEW t \in Tabs, Answer(t) \/ AnswerLost(t) PROVE NumbersAreFresh'
  <2>1. /\ \A u \in Tabs \ {t} : Same(u)
        /\ Busy(t) /\ Answering(t)
        /\ token' = token /\ next' = next /\ ended' = ended
    BY <1>5, AnswerFrame
  <2>2. Calm(t)
    BY <2>1 DEF Calm, Answering
  <2>3. \A u \in Tabs : Calm(u)
    BY <1>s, <2>1, <2>2
  <2>4. \A b \in Browsers : cookie'[b] \in {cookie[b], None, req[t].new}
    BY <1>5, AnswerFrame DEF NewCookie, TypeOK
  <2>5. req[t].new # None => req[t].new < next
    BY <1>b, <2>1 DEF IsOld
  <2>6. CookiesAreOld'
    BY <1>b, <2>1, <2>4, <2>5 DEF CookiesAreOld
  <2>7. QED
    BY <1>g, <2>1, <2>3, <2>6, FreshCalm
<1>6. ASSUME NEW t \in Tabs, Commit(t) PROVE NumbersAreFresh'
  <2>1. CASE Issues(t)
    BY <1>6, <1>g, <2>1, FreshIssue
  <2>2. CASE ~Issues(t)
    <3>1. /\ \A u \in Tabs \ {t} : Same(u)
          /\ Ending(t, "done") /\ Busy(t)
          /\ next' = next /\ cookie' = cookie
      BY <1>6, CommitFrame
    <3>2. \A u \in Tabs : Calm(u)
      BY <1>s, <2>2, <3>1 DEF Calm, Ending
    <3>3. \A k \in Tokens : token[k] = None => token'[k] = None
      BY <1>6, <2>2, CommitRows DEF Voided
    <3>4. \A f \in ended' : \/ f \in ended
                            \/ \E k \in Tokens : token[k] # None /\ token[k].family = f
                            \/ \E v \in Tabs : Busy(v) /\ ~Issues(v) /\ req[v].family = f
      <4>1. ended' = IF req[t].plan \in {"end", "burn"} THEN ended \cup {req[t].family}
                     ELSE IF req[t].plan = "change"
                     THEN ended \cup {token[k].family : k \in {k \in Tokens : IsLive(k)}}
                     ELSE ended
        BY <1>6, CommitFrame
      <4>2. QED
        BY <2>2, <3>1, <4>1 DEF IsLive
    <3>5. CookiesAreOld'
      BY <1>b, <3>1 DEF CookiesAreOld
    <3>6. QED
      BY <1>g, <3>1, <3>2, <3>3, <3>4, <3>5, FreshCalm
  <2>3. QED
    BY <2>1, <2>2
<1>7. QED
  BY <1>1, <1>2, <1>3, <1>4, <1>5, <1>6 DEF Step

-----------------------------------------------------------------------------
(***************************************************************************)
(* Who knows a token.                                                      *)
(***************************************************************************)
LEMMA KnownBefore ==
    ASSUME NEW a \in Browsers, NEW k \in Tokens, Knows(a, k)',
           cookie'[a] = k => Knows(a, k),
           \A u \in Tabs : \/ req'[u] = None \/ Core(u)
                           \/ /\ req'[u].new = None /\ Browser[u] \in Browsers
                              /\ req'[u].presented = cookie[Browser[u]]
    PROVE  Knows(a, k)
<1>1. CASE cookie'[a] = k
  BY <1>1
<1>2. ASSUME NEW u \in Tabs, Busy(u)', Browser[u] = a, k \in {req'[u].presented, req'[u].new}
      PROVE  Knows(a, k)
  <2>1. CASE Core(u)
    BY <1>2, <2>1 DEF Core, Knows
  <2>2. CASE req'[u].new = None /\ req'[u].presented = cookie[Browser[u]]
    BY <1>2, <2>2, TokensAssumption DEF Knows
  <2>3. QED
    BY <1>2, <2>1, <2>2 DEF Busy
<1>3. QED
  BY <1>1, <1>2 DEF Knows

LEMMA OneHolderStays ==
    ASSUME TypeOK, PlansFit, NumbersAreFresh, OneHolder, Step
    PROVE  OneHolder'
<1>t. /\ next \in Nat /\ Tokens \subseteq Nat \ {0} /\ None \notin Tokens
      /\ \A b \in Browsers : cookie[b] \in Tokens \cup {None}
  BY TokenTypes
<1>f. CookiesAreOld /\ \A u \in Tabs : IsOld(u)
  BY FreshParts
<1>1. ASSUME \A a \in Browsers, k \in Tokens : Knows(a, k)' => Knows(a, k) PROVE OneHolder'
  BY <1>1 DEF OneHolder
<1>s. \A u \in Tabs : Same(u) => req'[u] = None \/ Core(u)
  BY DEF Same
<1>2. CASE Expire \/ UNCHANGED vars
  <2>1. req' = req /\ cookie' = cookie
    BY <1>2 DEF Expire, vars
  <2>2. QED
    BY <2>1 DEF OneHolder, Knows, Busy
<1>3. ASSUME NEW t \in Tabs, Sent(t) PROVE OneHolder'
  <2>1. /\ \A u \in Tabs \ {t} : Same(u)
        /\ cookie' = cookie /\ req'[t].new = None /\ Browser[t] \in Browsers
        /\ req'[t].presented = cookie[Browser[t]]
    BY <1>3, SendFrame
  <2>2. \A a \in Browsers, k \in Tokens : cookie'[a] = k => Knows(a, k)
    BY <2>1 DEF Knows
  <2>3. \A u \in Tabs : \/ req'[u] = None \/ Core(u)
                        \/ /\ req'[u].new = None /\ Browser[u] \in Browsers
                           /\ req'[u].presented = cookie[Browser[u]]
    BY <1>s, <2>1
  <2>4. QED
    BY <1>1, <2>2, <2>3, KnownBefore
<1>4. ASSUME NEW t \in Tabs, NEW plan \in Plans, NEW family \in Families \cup {None},
             NEW new \in Tokens \cup {None}, NEW rehash \in BOOLEAN,
             Read(t, plan, family, new, rehash)
      PROVE  OneHolder'
  <2>1. Decided(t, plan, family, new)
    BY <1>4, ReadFrame
  <2>2. /\ \A u \in Tabs \ {t} : Same(u)
        /\ cookie' = cookie /\ req'[t].new = new /\ req'[t].presented = req[t].presented /\ Busy(t)
    BY <2>1 DEF Decided
  <2>3. new = None \/ new = next
    BY <1>4 DEF Read
  <2>4. ASSUME NEW a \in Browsers, NEW k \in Tokens, Knows(a, k)'
        PROVE  Knows(a, k) \/ (k = next /\ a = Browser[t])
    <3>1. CASE cookie'[a] = k
      BY <2>2, <3>1 DEF Knows
    <3>2. ASSUME NEW u \in Tabs, Busy(u)', Browser[u] = a, k \in {req'[u].presented, req'[u].new}
          PROVE  Knows(a, k) \/ (k = next /\ a = Browser[t])
      <4>1. CASE u = t
        BY <1>t, <2>2, <2>3, <3>2, <4>1 DEF Knows
      <4>2. CASE u # t
        BY <1>s, <2>2, <3>2, <4>2 DEF Knows, Core, Busy
      <4>3. QED
        BY <4>1, <4>2
    <3>3. QED
      BY <2>4, <3>1, <3>2 DEF Knows
  <2>5. \A a \in Browsers : next \in Tokens => ~Knows(a, next)
    <3>1. ~(next < next)
      BY <1>t
    <3>2. QED
      BY <1>f, <1>t, <3>1 DEF Knows, CookiesAreOld, IsOld
  <2>6. QED
    BY <2>4, <2>5 DEF OneHolder
<1>5. ASSUME NEW t \in Tabs, Commit(t) \/ CommitFails(t) PROVE OneHolder'
  <2>1. /\ \A u \in Tabs \ {t} : Same(u)
        /\ cookie' = cookie /\ (Ending(t, "done") \/ Ending(t, "failed"))
    BY <1>5, CommitFrame, FailFrame
  <2>2. \A a \in Browsers, k \in Tokens : cookie'[a] = k => Knows(a, k)
    BY <2>1 DEF Knows
  <2>3. \A u \in Tabs : req'[u] = None \/ Core(u)
    BY <1>s, <2>1 DEF Ending
  <2>4. QED
    BY <1>1, <2>2, <2>3, KnownBefore
<1>6. ASSUME NEW t \in Tabs, Answer(t) \/ AnswerLost(t) PROVE OneHolder'
  <2>1. /\ \A u \in Tabs \ {t} : Same(u)
        /\ Busy(t) /\ Answering(t) /\ Browser[t] \in Browsers
    BY <1>6, AnswerFrame
  <2>2. ASSUME NEW a \in Browsers, NEW k \in Tokens, cookie'[a] = k PROVE Knows(a, k)
    <3>1. cookie'[a] = cookie[a] \/ (a = Browser[t] /\ cookie'[a] \in {req[t].new, None, cookie[a]})
      BY <1>6, AnswerFrame DEF NewCookie, TypeOK
    <3>2. QED
      BY <1>t, <2>1, <2>2, <3>1 DEF Knows
  <2>3. \A u \in Tabs : req'[u] = None \/ Core(u)
    BY <1>s, <2>1 DEF Answering
  <2>4. QED
    BY <1>1, <2>2, <2>3, KnownBefore
<1>7. QED
  BY <1>2, <1>3, <1>4, <1>5, <1>6 DEF Step

-----------------------------------------------------------------------------
(***************************************************************************)
(* One live token.                                                         *)
(***************************************************************************)
LEMMA StaysDisturbed ==
    ASSUME TypeOK, PlansFit, Step
    PROVE  disturbed \subseteq disturbed'
<1>1. CASE Expire \/ UNCHANGED vars
  BY <1>1 DEF Expire, vars
<1>2. ASSUME NEW t \in Tabs, Sent(t) PROVE disturbed \subseteq disturbed'
  BY <1>2, SendFrame
<1>3. ASSUME NEW t \in Tabs, NEW plan \in Plans, NEW family \in Families \cup {None},
             NEW new \in Tokens \cup {None}, NEW rehash \in BOOLEAN,
             Read(t, plan, family, new, rehash)
      PROVE  disturbed \subseteq disturbed'
  BY <1>3 DEF Read, Decide
<1>4. ASSUME NEW t \in Tabs, Commit(t) PROVE disturbed \subseteq disturbed'
  BY <1>4 DEF Commit
<1>5. ASSUME NEW t \in Tabs, CommitFails(t) PROVE disturbed \subseteq disturbed'
  BY <1>5 DEF CommitFails
<1>6. ASSUME NEW t \in Tabs, Answer(t) \/ AnswerLost(t) PROVE disturbed \subseteq disturbed'
  BY <1>6 DEF Answer, AnswerLost
<1>7. QED
  BY <1>1, <1>2, <1>3, <1>4, <1>5, <1>6 DEF Step

\* A row is written by the commit of the request that issues its token.
LEMMA NewRows ==
    ASSUME TypeOK, PlansFit, Step, NEW k \in Tokens, token[k] = None, token'[k] # None
    PROVE  \E t \in Tabs : /\ Commit(t) /\ Issues(t) /\ k = req[t].new
                           /\ token'[k].family = req[t].family
<1>1. ~Expire /\ ~UNCHANGED vars
  BY ExpireRows DEF vars
<1>2. \A t \in Tabs : ~Sent(t) /\ ~CommitFails(t) /\ ~Answer(t) /\ ~AnswerLost(t)
  BY SendFrame, FailFrame, AnswerFrame
<1>3. ASSUME NEW t \in Tabs, NEW plan \in Plans, NEW family \in Families \cup {None},
             NEW new \in Tokens \cup {None}, NEW rehash \in BOOLEAN,
             Read(t, plan, family, new, rehash)
      PROVE  FALSE
  BY <1>3 DEF Read, Decide
<1>4. PICK t \in Tabs : Commit(t)
  BY <1>1, <1>2, <1>3 DEF Step
<1>5. Issues(t) /\ k = req[t].new
  BY <1>4, CommitRows DEF Voided
<1>6. QED
  BY <1>4, <1>5, CommitRows DEF Put

\* A token that is live was so before, or is issued.
LEMMA NewLife ==
    ASSUME TypeOK, PlansFit, NumbersAreFresh, Step, NEW k \in Tokens, IsLive(k)',
           \A t \in Tabs : Commit(t) => ~(Issues(t) /\ k = req[t].new)
    PROVE  IsLive(k) /\ token'[k].family = token[k].family
<1>1. token[k] # None
  BY NewRows DEF IsLive
<1>2. Grows(k) /\ token[k].revoked \in BOOLEAN
  BY <1>1, Growing, TokenTypes
<1>3. QED
  BY <1>1, <1>2 DEF Grows, IsLive

LEMMA OneLiveStays ==
    ASSUME TypeOK, PlansFit, NumbersAreFresh, RotatesTheLiveOne, OneLive, Step
    PROVE  OneLive'
<1>d. disturbed \subseteq disturbed'
  BY StaysDisturbed
<1>1. CASE \A t \in Tabs : ~Commit(t)
  <2>1. \A f \in Families : Live(f)' \subseteq Live(f)
    BY <1>1, NewLife DEF Live
  <2>2. QED
    BY <1>d, <2>1 DEF OneLive
<1>2. ASSUME NEW t \in Tabs, Commit(t), ~Issues(t) PROVE OneLive'
  <2>1. \A k \in Tokens : IsLive(k)' => IsLive(k) /\ token'[k].family = token[k].family
    <3>1. \A k \in Tokens : IF Hits(t, k) THEN Voided(k) ELSE token'[k] = token[k]
      BY <1>2, CommitRows
    <3>2. QED
      BY <3>1 DEF Voided, IsLive
  <2>2. \A f \in Families : Live(f)' \subseteq Live(f)
    BY <2>1 DEF Live
  <2>3. QED
    BY <1>d, <2>2 DEF OneLive
<1>3. ASSUME NEW t \in Tabs, Commit(t), Issues(t),
             NEW f \in Families, f \notin disturbed'
      PROVE  \A k, l \in Live(f)' : k = l
  <2>1. /\ Put(t)
        /\ \A k \in Tokens \ {req[t].new} : IF Hits(t, k) THEN Voided(k) ELSE token'[k] = token[k]
    BY <1>3, CommitRows
  <2>2. Busy(t) /\ req[t].commit = "todo" /\ f \notin disturbed
    BY <1>3, <1>d, CommitFrame
  <2>3. \A k \in Live(f)' : k # req[t].new => k \in Live(f) /\ ~Hits(t, k)
    BY <2>1 DEF Live, IsLive, Voided
  <2>4. \A k \in Live(f)' : k = req[t].new => f = req[t].family
    BY <2>1 DEF Live, Put
  <2>5. ASSUME f = req[t].family, NEW k \in Live(f), ~Hits(t, k) PROVE FALSE
    <3>1. CASE req[t].plan = "rotate"
      <4>1. k = req[t].presented
        BY <2>2, <2>5, <3>1 DEF RotatesTheLiveOne, Rotates
      <4>2. QED
        BY <2>5, <3>1, <4>1 DEF Hits
    <3>2. CASE req[t].plan = "issue"
      BY <1>3, <2>2, <2>5, <3>2 DEF NumbersAreFresh, PlansFit, Live, IsLive
    <3>3. QED
      BY <1>3, <3>1, <3>2 DEF Issues
  <2>6. QED
    BY <2>2, <2>3, <2>4, <2>5 DEF OneLive
<1>4. QED
  BY <1>1, <1>2, <1>3 DEF OneLive

\* A token that is out is of the session it was of.
LEMMA FamiliesStay ==
    ASSUME TypeOK, PlansFit, NumbersAreFresh, Step, NEW c \in Tokens, c < next
    PROVE  FamiliesOf(c)' \subseteq FamiliesOf(c)
<1>1. ASSUME NEW f \in Families, token'[c] # None, token'[c].family = f
      PROVE  f \in FamiliesOf(c)
  <2>1. CASE token[c] # None
    <3>1. Grows(c)
      BY Growing
    <3>2. QED
      BY <1>1, <2>1, <3>1 DEF Grows, FamiliesOf
  <2>2. CASE token[c] = None
    <3>1. PICK t \in Tabs : Commit(t) /\ Issues(t) /\ c = req[t].new /\ token'[c].family = req[t].family
      BY <1>1, <2>2, NewRows
    <3>2. QED
      BY <1>1, <3>1 DEF Issues, FamiliesOf
  <2>3. QED
    BY <2>1, <2>2
<1>2. ASSUME NEW u \in Tabs, Busy(u)', req'[u].new = c
      PROVE  Core(u)
  <2>1. Same(u) => Core(u)
    BY <1>2 DEF Same, Busy
  <2>2. CASE Expire \/ UNCHANGED vars
    BY <1>2, <2>2 DEF Expire, vars, Core, Busy
  <2>3. ASSUME NEW t \in Tabs, Sent(t) PROVE Core(u)
    <3>1. u # t
      BY <1>2, <2>3, SendFrame, TokensAssumption
    <3>2. QED
      BY <2>1, <2>3, <3>1, SendFrame
  <2>4. ASSUME NEW t \in Tabs, NEW plan \in Plans, NEW family \in Families \cup {None},
               NEW new \in Tokens \cup {None}, NEW rehash \in BOOLEAN,
               Read(t, plan, family, new, rehash)
        PROVE  Core(u)
    <3>1. Decided(t, plan, family, new)
      BY <2>4, ReadFrame
    <3>2. new # c
      <4>1. new = next \/ new = None
        BY <2>4 DEF Read
      <4>2. c # next
        BY TokenTypes
      <4>3. QED
        BY <4>1, <4>2, TokensAssumption
    <3>3. QED
      BY <1>2, <2>1, <3>1, <3>2 DEF Decided
  <2>5. ASSUME NEW t \in Tabs, Commit(t) \/ CommitFails(t) PROVE Core(u)
    <3>1. (\A v \in Tabs \ {t} : Same(v)) /\ (Ending(t, "done") \/ Ending(t, "failed"))
      BY <2>5, CommitFrame, FailFrame
    <3>2. QED
      BY <1>2, <2>1, <3>1 DEF Ending, Busy
  <2>6. ASSUME NEW t \in Tabs, Answer(t) \/ AnswerLost(t) PROVE Core(u)
    <3>1. (\A v \in Tabs \ {t} : Same(v)) /\ Answering(t)
      BY <2>6, AnswerFrame
    <3>2. QED
      BY <1>2, <2>1, <3>1 DEF Answering, Busy
  <2>7. QED
    BY <2>2, <2>3, <2>4, <2>5, <2>6 DEF Step
<1>3. ASSUME NEW f \in Families, NEW u \in Tabs, Busy(u)', req'[u].new = c, req'[u].family = f
      PROVE  f \in FamiliesOf(c)
  BY <1>2, <1>3 DEF Core, FamiliesOf
<1>4. QED
  BY <1>1, <1>3 DEF FamiliesOf

\* Two requests with one cookie are known for it.
UsedOnce ==
    \A t, u \in Tabs : \A c \in Tokens :
       t # u /\ Presents(t, c) /\ Presents(u, c) => FamiliesOf(c) \subseteq disturbed

\* Of an undisturbed session one request at a time rotates the live token.
IsAlone(t) ==
    Rotates(t) /\ req[t].commit = "todo" /\ req[t].family \notin disturbed =>
       /\ Live(req[t].family) \subseteq {req[t].presented}
       /\ \A u \in Tabs \ {t} : Rotates(u) /\ req[u].commit = "todo" => req[u].family # req[t].family

LEMMA UsedOnceStays ==
    ASSUME TypeOK, PlansFit, NumbersAreFresh, RotatesTheLiveOne, Step
    PROVE  UsedOnce'
<1>u. UsedOnce
  BY DEF RotatesTheLiveOne, UsedOnce
<1>d. disturbed \subseteq disturbed'
  BY StaysDisturbed
<1>o. \A u \in Tabs, c \in Tokens : Presents(u, c) => c < next
  BY FreshParts, TokensAssumption DEF IsOld, Presents
<1>1. ASSUME \A u \in Tabs, c \in Tokens : Presents(u, c)' => Presents(u, c)
      PROVE  UsedOnce'
  BY <1>1, <1>d, <1>o, <1>u, FamiliesStay DEF UsedOnce
<1>2. ASSUME \A u \in Tabs : \/ req'[u] = None
                             \/ Busy(u) /\ req'[u].presented = req[u].presented
      PROVE  UsedOnce'
  BY <1>1, <1>2 DEF Presents, Busy
<1>s. \A u \in Tabs : Same(u) => \/ req'[u] = None
                                 \/ Busy(u) /\ req'[u].presented = req[u].presented
  BY DEF Same, Core
<1>3. CASE Expire \/ UNCHANGED vars
  <2>1. req' = req
    BY <1>3 DEF Expire, vars
  <2>2. QED
    BY <1>1, <2>1 DEF Presents, Busy
<1>4. ASSUME NEW t \in Tabs, Sent(t) PROVE UsedOnce'
  <2> DEFINE b == cookie[Browser[t]]
  <2>1. /\ \A u \in Tabs \ {t} : Same(u)
        /\ ~Busy(t) /\ req'[t].presented = b /\ b \in Tokens \cup {None}
        /\ disturbed' = IF b # None /\ \E u \in Tabs : Presents(u, b)
                        THEN disturbed \cup FamiliesOf(b) ELSE disturbed
    BY <1>4, SendFrame, TokenTypes
  <2> HIDE DEF b
  <2>2. \A u \in Tabs \ {t}, c \in Tokens : Presents(u, c)' => Presents(u, c)
    BY <1>s, <2>1 DEF Presents, Busy
  <2>3. \A c \in Tokens : Presents(t, c)' => c = b
    BY <2>1 DEF Presents
  <2>4. ASSUME NEW u \in Tabs \ {t}, NEW c \in Tokens, Presents(u, c)', Presents(t, c)'
        PROVE  (FamiliesOf(c) \subseteq disturbed)'
    <3>1. Presents(u, c) /\ c = b
      BY <2>2, <2>3, <2>4
    <3>2. FamiliesOf(c) \subseteq disturbed'
      BY <2>1, <3>1, TokensAssumption
    <3>3. FamiliesOf(c)' \subseteq FamiliesOf(c)
      BY <1>o, <3>1, FamiliesStay
    <3>4. QED
      BY <3>2, <3>3
  <2>5. ASSUME NEW u \in Tabs \ {t}, NEW v \in Tabs \ {t}, u # v, NEW c \in Tokens,
               Presents(u, c)', Presents(v, c)'
        PROVE  (FamiliesOf(c) \subseteq disturbed)'
    <3>1. Presents(u, c) /\ Presents(v, c) /\ c < next
      BY <1>o, <2>2, <2>5
    <3>2. FamiliesOf(c)' \subseteq FamiliesOf(c)
      BY <3>1, FamiliesStay
    <3>3. QED
      BY <1>d, <1>u, <2>5, <3>1, <3>2 DEF UsedOnce
  <2>6. QED
    BY <2>4, <2>5 DEF UsedOnce
<1>5. ASSUME NEW t \in Tabs, NEW plan \in Plans, NEW family \in Families \cup {None},
             NEW new \in Tokens \cup {None}, NEW rehash \in BOOLEAN,
             Read(t, plan, family, new, rehash)
      PROVE  UsedOnce'
  <2>1. Decided(t, plan, family, new)
    BY <1>5, ReadFrame
  <2>2. QED
    BY <1>2, <1>s, <2>1 DEF Decided
<1>6. ASSUME NEW t \in Tabs, Commit(t) \/ CommitFails(t) PROVE UsedOnce'
  <2>1. (\A v \in Tabs \ {t} : Same(v)) /\ (Ending(t, "done") \/ Ending(t, "failed"))
    BY <1>6, CommitFrame, FailFrame
  <2>2. QED
    BY <1>2, <1>s, <2>1 DEF Ending, Core
<1>7. ASSUME NEW t \in Tabs, Answer(t) \/ AnswerLost(t) PROVE UsedOnce'
  <2>1. (\A v \in Tabs \ {t} : Same(v)) /\ Answering(t)
    BY <1>7, AnswerFrame
  <2>2. QED
    BY <1>2, <1>s, <2>1 DEF Answering, Core
<1>8. QED
  BY <1>3, <1>4, <1>5, <1>6, <1>7 DEF Step

\* Whoever was alone stays alone while nobody begins to rotate and nothing is issued.
LEMMA AloneCalm ==
    ASSUME \A u \in Tabs : IsAlone(u), disturbed \subseteq disturbed',
           \A u \in Tabs : Rotates(u)' /\ req'[u].commit = "todo" =>
              /\ Core(u) /\ req[u].commit = "todo"
              /\ req[u].family \notin disturbed => Live(req[u].family)' \subseteq Live(req[u].family)
    PROVE  \A u \in Tabs : IsAlone(u)'
<1>1. \A u \in Tabs : Rotates(u)' /\ req'[u].commit = "todo" =>
        Rotates(u) /\ Core(u) /\ req[u].commit = "todo"
  BY DEF Rotates, Core
<1>2. SUFFICES ASSUME NEW u \in Tabs, Rotates(u)', req'[u].commit = "todo",
                      req'[u].family \notin disturbed'
               PROVE  /\ Live(req[u].family)' \subseteq {req'[u].presented}
                      /\ \A v \in Tabs \ {u} : Rotates(v)' /\ req'[v].commit = "todo" =>
                                                  req'[v].family # req'[u].family
  BY DEF IsAlone
<1>3. /\ Rotates(u) /\ req[u].commit = "todo" /\ req[u].family \notin disturbed
      /\ req'[u].family = req[u].family /\ req'[u].presented = req[u].presented
  BY <1>1, <1>2 DEF Core
<1>4. Live(req[u].family)' \subseteq {req'[u].presented}
  BY <1>2, <1>3 DEF IsAlone
<1>5. ASSUME NEW v \in Tabs \ {u}, Rotates(v)', req'[v].commit = "todo"
      PROVE  req'[v].family # req'[u].family
  BY <1>1, <1>3, <1>5 DEF IsAlone, Core
<1>6. QED
  BY <1>4, <1>5

LEMMA RotatesTheLiveOneStays ==
    ASSUME TypeOK, PlansFit, NumbersAreFresh, RotatesTheLiveOne, OneLive, Step
    PROVE  RotatesTheLiveOne'
<1>a. UsedOnce /\ \A u \in Tabs : IsAlone(u)
  BY DEF RotatesTheLiveOne, UsedOnce, IsAlone
<1>d. disturbed \subseteq disturbed'
  BY StaysDisturbed
<1>s. \A u \in Tabs : Same(u) /\ req'[u] # None => Core(u) /\ req'[u].commit = req[u].commit
  BY DEF Same
<1>1. ASSUME \A t \in Tabs : ~(Commit(t) /\ Issues(t))
      PROVE  \A f \in Families : Live(f)' \subseteq Live(f)
  BY <1>1, NewLife DEF Live
<1>f. \A u \in Tabs : Rotates(u) => req[u].family \in Families
  <2>1. ASSUME NEW u \in Tabs, Rotates(u) PROVE req[u].family \in Families
    <3>1. /\ req[u].presented \in Tokens /\ token[req[u].presented] # None
          /\ token[req[u].presented].family = req[u].family
      BY <2>1, RequestTypes DEF PlansFit, Rotates
    <3>2. QED
      BY <3>1, TokenTypes
  <2>2. QED
    BY <2>1
<1>2. ASSUME \A t \in Tabs : ~(Commit(t) /\ Issues(t)),
             \A u \in Tabs : Rotates(u)' /\ req'[u].commit = "todo" => Core(u) /\ req[u].commit = "todo"
      PROVE  \A u \in Tabs : IsAlone(u)'
  <2>1. ASSUME NEW u \in Tabs, Core(u), Rotates(u)' PROVE Live(req[u].family)' \subseteq Live(req[u].family)
    <3>1. Rotates(u) /\ req'[u].family = req[u].family
      BY <2>1 DEF Core, Rotates
    <3>2. \A f \in Families : Live(f)' \subseteq Live(f)
      BY <1>1, <1>2
    <3>3. QED
      BY <1>f, <3>1, <3>2 DEF Live
  <2>2. QED
    BY <1>a, <1>d, <1>2, <2>1, AloneCalm
<1>3. ASSUME Expire \/ UNCHANGED vars PROVE \A u \in Tabs : IsAlone(u)'
  <2>1. req' = req
    BY <1>3 DEF Expire, vars
  <2>2. \A k \in Tokens : IsLive(k)' => IsLive(k) /\ token'[k].family = token[k].family
    <3>1. CASE Expire
      <4>1. ASSUME NEW k \in Tokens, IsLive(k)'
            PROVE  IsLive(k) /\ token'[k].family = token[k].family
        <5>1. IF token[k] = None THEN token'[k] = None
              ELSE token'[k].family = token[k].family /\ token'[k].revoked = token[k].revoked
          BY <3>1, ExpireRows
        <5>2. QED
          BY <4>1, <5>1 DEF IsLive
      <4>2. QED
        BY <4>1
    <3>2. CASE UNCHANGED vars
      BY <3>2 DEF vars, IsLive
    <3>3. QED
      BY <1>3, <3>1, <3>2
  <2>3. \A f \in Families : Live(f)' \subseteq Live(f)
    BY <2>2 DEF Live
  <2>4. \A u \in Tabs : Rotates(u)' => Core(u) /\ Rotates(u)
    BY <2>1 DEF Core, Rotates, Busy
  <2>5. ASSUME NEW u \in Tabs, Rotates(u)'
        PROVE  Live(req[u].family)' \subseteq Live(req[u].family)
    BY <1>f, <2>1, <2>3, <2>4, <2>5 DEF Live
  <2>6. QED
    BY <1>a, <1>d, <2>1, <2>4, <2>5, AloneCalm
<1>4. ASSUME NEW t \in Tabs, Sent(t) PROVE \A u \in Tabs : IsAlone(u)'
  <2>1. \A u \in Tabs : Rotates(u)' /\ req'[u].commit = "todo" => Core(u) /\ req[u].commit = "todo"
    BY <1>4, <1>s, SendFrame DEF Rotates, Busy
  <2>2. token' = token
    BY <1>4, SendFrame
  <2>3. \A f \in Families : Live(f)' \subseteq Live(f)
    BY <2>2 DEF Live, IsLive
  <2>4. ASSUME NEW u \in Tabs, Core(u), Rotates(u)' PROVE Live(req[u].family)' \subseteq Live(req[u].family)
    BY <2>2, <2>4 DEF Live, IsLive, Core
  <2>5. QED
    BY <1>a, <1>d, <2>1, <2>4, AloneCalm
<1>5. ASSUME NEW t \in Tabs, NEW plan \in Plans, NEW family \in Families \cup {None},
             NEW new \in Tokens \cup {None}, NEW rehash \in BOOLEAN,
             Read(t, plan, family, new, rehash)
      PROVE  \A u \in Tabs : IsAlone(u)'
  <2>1. Decided(t, plan, family, new)
    BY <1>5, ReadFrame
  <2>2. /\ \A u \in Tabs \ {t} : Same(u)
        /\ token' = token /\ disturbed' = disturbed /\ Busy(t)
        /\ req'[t].plan = plan /\ req'[t].family = family /\ req'[t].presented = req[t].presented
    BY <2>1 DEF Decided
  <2>3. ASSUME NEW u \in Tabs \ {t}, Rotates(u)', req'[u].commit = "todo"
        PROVE  Core(u) /\ req[u].commit = "todo" /\ Rotates(u)
    BY <1>s, <2>2, <2>3 DEF Rotates, Busy, Core
  <2>4. \A f : Live(f)' = Live(f)
    BY <2>2 DEF Live, IsLive
  <2>5. ASSUME plan = "rotate", family \notin disturbed
        PROVE  /\ Live(family) \subseteq {req[t].presented}
               /\ \A u \in Tabs \ {t} : Rotates(u) /\ req[u].commit = "todo" => req[u].family # family
    <3>1. /\ req[t].presented \in Tokens /\ IsLive(req[t].presented)
          /\ family = token[req[t].presented].family
      BY <1>5, <2>5 DEF Read
    <3>2. family \in Families /\ req[t].presented \in Live(family)
      BY <3>1, TokenTypes DEF Live, IsLive
    <3>3. Live(family) \subseteq {req[t].presented}
      BY <2>5, <3>2 DEF OneLive
    <3>4. ASSUME NEW u \in Tabs \ {t}, Rotates(u), req[u].commit = "todo", req[u].family = family
          PROVE  FALSE
      <4>1. req[u].presented = req[t].presented
        BY <1>a, <2>5, <3>2, <3>4 DEF IsAlone
      <4>2. Presents(u, req[t].presented) /\ Presents(t, req[t].presented)
        BY <2>2, <3>4, <4>1 DEF Presents, Rotates
      <4>3. FamiliesOf(req[t].presented) \subseteq disturbed
        BY <1>a, <3>1, <4>2 DEF UsedOnce
      <4>4. family \in FamiliesOf(req[t].presented)
        BY <3>1, <3>2 DEF FamiliesOf, IsLive
      <4>5. QED
        BY <2>5, <4>3, <4>4
    <3>5. QED
      BY <3>3, <3>4
  <2>6. IsAlone(t)'
    <3>1. SUFFICES ASSUME Rotates(t)', req'[t].commit = "todo", req'[t].family \notin disturbed'
                   PROVE  /\ Live(req[t].family)' \subseteq {req'[t].presented}
                          /\ \A u \in Tabs \ {t} : Rotates(u)' /\ req'[u].commit = "todo" =>
                                                      req'[u].family # req'[t].family
      BY DEF IsAlone
    <3>2. plan = "rotate" /\ family \notin disturbed
      BY <2>2, <3>1 DEF Rotates
    <3>3. Live(req[t].family)' = Live(family)
      BY <2>2 DEF Live, IsLive
    <3>4. QED
      BY <2>2, <2>3, <2>5, <3>2, <3>3 DEF Core
  <2>7. ASSUME NEW u \in Tabs \ {t} PROVE IsAlone(u)'
    <3>1. SUFFICES ASSUME Rotates(u)', req'[u].commit = "todo", req'[u].family \notin disturbed'
                   PROVE  /\ Live(req[u].family)' \subseteq {req'[u].presented}
                          /\ \A v \in Tabs \ {u} : Rotates(v)' /\ req'[v].commit = "todo" =>
                                                      req'[v].family # req'[u].family
      BY DEF IsAlone
    <3>2. /\ Rotates(u) /\ req[u].commit = "todo" /\ req[u].family \notin disturbed
          /\ req'[u].family = req[u].family /\ req'[u].presented = req[u].presented
      BY <2>2, <2>3, <3>1 DEF Core
    <3>3. Live(req[u].family)' = Live(req[u].family)
      BY <2>2, <3>2 DEF Live, IsLive
    <3>4. ASSUME Rotates(t)', req'[t].family = req[u].family PROVE FALSE
      BY <2>2, <2>5, <3>2, <3>4 DEF Rotates
    <3>5. QED
      BY <1>a, <2>3, <3>2, <3>3, <3>4 DEF IsAlone, Core
  <2>8. QED
    BY <2>6, <2>7
<1>6. ASSUME NEW t \in Tabs, CommitFails(t) \/ Answer(t) \/ AnswerLost(t)
      PROVE  \A u \in Tabs : IsAlone(u)'
  <2>1. /\ \A u \in Tabs \ {t} : Same(u)
        /\ token' = token /\ (Ending(t, "failed") \/ Answering(t)) /\ Busy(t)
    BY <1>6, FailFrame, AnswerFrame
  <2>2. ASSUME NEW u \in Tabs, Rotates(u)', req'[u].commit = "todo"
        PROVE  Core(u) /\ req[u].commit = "todo"
    BY <1>s, <2>1, <2>2 DEF Rotates, Busy, Ending, Answering
  <2>3. ASSUME NEW u \in Tabs, Core(u), Rotates(u)' PROVE Live(req[u].family)' \subseteq Live(req[u].family)
    BY <2>1, <2>3 DEF Live, IsLive, Core
  <2>4. QED
    BY <1>a, <1>d, <2>2, <2>3, AloneCalm
<1>7. ASSUME NEW t \in Tabs, Commit(t) PROVE \A u \in Tabs : IsAlone(u)'
  <2>1. /\ \A u \in Tabs \ {t} : Same(u)
        /\ Ending(t, "done") /\ Busy(t) /\ req[t].commit = "todo"
    BY <1>7, CommitFrame
  <2>2. ASSUME NEW u \in Tabs, Rotates(u)', req'[u].commit = "todo"
        PROVE  Core(u) /\ req[u].commit = "todo" /\ u # t
    BY <1>s, <2>1, <2>2 DEF Rotates, Busy, Ending
  <2>3. ASSUME NEW u \in Tabs, Rotates(u)', req'[u].commit = "todo", req[u].family \notin disturbed
        PROVE  Live(req[u].family)' \subseteq Live(req[u].family)
    <3>1. u # t /\ Core(u) /\ Rotates(u) /\ req[u].commit = "todo" /\ req'[u].family = req[u].family
      BY <2>2, <2>3 DEF Core, Rotates
    <3>2. Issues(t) => req[t].family # req[u].family
      <4>1. CASE req[t].plan = "rotate"
        BY <1>a, <2>1, <2>3, <3>1, <4>1 DEF IsAlone, Rotates
      <4>2. CASE req[t].plan = "issue"
        <5>1. \A v \in Tabs \ {t} : Busy(v) => req[v].family # req[t].new
          BY <2>1, <4>2 DEF NumbersAreFresh, Issues
        <5>2. req[t].family = req[t].new
          BY <2>1, <4>2 DEF PlansFit
        <5>3. QED
          BY <3>1, <5>1, <5>2 DEF Rotates
      <4>3. QED
        BY <4>1, <4>2 DEF Issues
    <3>3. ASSUME NEW k \in Tokens, IsLive(k)', token'[k].family = req[u].family
          PROVE  IsLive(k) /\ token[k].family = req[u].family
      <4>1. ~(Issues(t) /\ k = req[t].new)
        BY <1>7, <3>2, <3>3, CommitRows DEF Put
      <4>2. Voided(k) \/ token'[k] = token[k]
        BY <1>7, <4>1, CommitRows
      <4>3. QED
        BY <3>3, <4>2 DEF Voided, IsLive
    <3>4. QED
      BY <3>1, <3>3 DEF Live
  <2>4. QED
    BY <1>a, <1>d, <2>2, <2>3, AloneCalm
<1>8. UsedOnce'
  BY UsedOnceStays
<1>9. \A u \in Tabs : IsAlone(u)'
  BY <1>3, <1>4, <1>5, <1>6, <1>7 DEF Step
<1>10. QED
  BY <1>8, <1>9 DEF RotatesTheLiveOne, UsedOnce, IsAlone

-----------------------------------------------------------------------------
(***************************************************************************)
(* What has ended.                                                         *)
(***************************************************************************)
PasswordIsHash == hash = passwords \/ undone

\* What a request is about to issue is of a session that goes on, or known to be late.
IsKnown(t) ==
    Issues(t) /\ req[t].commit = "todo" /\ ~req[t].stale =>
       IF req[t].plan = "issue" THEN req[t].pw = passwords \/ undone
       ELSE \/ req[t].presented \in late
            \/ /\ req[t].family \notin ended
               /\ token[req[t].presented].pw = passwords \/ undone

LEMMA Passwords ==
    ASSUME TypeOK, PlansFit, LateIsKnown, NEW t \in Tabs, Commit(t)
    PROVE  /\ req[t].plan = "change" => passwords' = passwords + 1
           /\ req[t].plan # "change" => passwords' = passwords
           /\ undone => undone'
           /\ PasswordIsHash'
<1>1. Writes(t) /\ Busy(t)
  BY DEF Commit, MayCommit
<1>2. hash = passwords \/ undone
  BY DEF LateIsKnown
<1>3. CASE req[t].plan = "issue"
  <2>1. /\ hash' = (IF req[t].rehash THEN req[t].pw ELSE hash)
        /\ undone' = (undone \/ hash' # hash) /\ passwords' = passwords
    BY <1>1, <1>3 DEF Writes
  <2>2. QED
    BY <1>2, <1>3, <2>1 DEF PasswordIsHash
<1>4. CASE req[t].plan = "change"
  <2>1. passwords' = passwords + 1 /\ hash' = passwords + 1 /\ undone' = undone
    BY <1>1, <1>4 DEF Writes
  <2>2. QED
    BY <1>4, <2>1 DEF PasswordIsHash
<1>5. CASE req[t].plan \notin {"issue", "change"}
  <2>1. passwords' = passwords /\ hash' = hash /\ undone' = undone
    BY <1>1, <1>5 DEF Writes
  <2>2. QED
    BY <1>2, <1>5, <2>1 DEF PasswordIsHash
<1>6. QED
  BY <1>3, <1>4, <1>5

LEMMA StaysKnown ==
    ASSUME TypeOK, PlansFit, NEW u \in Tabs, IsKnown(u), Core(u), \A k \in Tokens : Grows(k),
           req'[u].commit = "todo" => req[u].commit = "todo",
           passwords' = passwords, undone => undone', late \subseteq late',
           Issues(u) /\ ~req'[u].stale /\ req[u].family \in ended' => req[u].family \in ended
    PROVE  IsKnown(u)'
<1>1. SUFFICES ASSUME Issues(u)', req'[u].commit = "todo", ~req'[u].stale
               PROVE  IF req'[u].plan = "issue" THEN req'[u].pw = passwords' \/ undone'
                      ELSE \/ req'[u].presented \in late'
                           \/ /\ req'[u].family \notin ended'
                              /\ token'[req'[u].presented].pw = passwords' \/ undone'
  BY DEF IsKnown
<1>2. Issues(u) /\ req[u].commit = "todo" /\ ~req[u].stale
  BY <1>1 DEF Issues, Core
<1>3. CASE req[u].plan = "issue"
  BY <1>2, <1>3 DEF IsKnown, Core
<1>4. CASE req[u].plan = "rotate"
  <2>1. req[u].presented \in Tokens /\ token[req[u].presented] # None
    BY <1>4, RequestTypes DEF PlansFit, Core
  <2>2. token'[req[u].presented].pw = token[req[u].presented].pw
    BY <2>1 DEF Grows
  <2>3. \/ req[u].presented \in late
        \/ req[u].family \notin ended /\ (token[req[u].presented].pw = passwords \/ undone)
    BY <1>2, <1>4 DEF IsKnown
  <2>4. \/ req'[u].presented \in late'
        \/ /\ req'[u].family \notin ended'
           /\ token'[req'[u].presented].pw = passwords' \/ undone'
    BY <1>1, <1>2, <2>2, <2>3 DEF Core
  <2>5. req'[u].plan # "issue"
    BY <1>4 DEF Core
  <2>6. QED
    BY <2>4, <2>5
<1>5. QED
  BY <1>2, <1>3, <1>4 DEF Issues

LEMMA LateIsKnownStays ==
    ASSUME TypeOK, PlansFit, NumbersAreFresh, LateIsKnown, EndedStaysEnded, Step
    PROVE  LateIsKnown'
<1>k. PasswordIsHash /\ \A u \in Tabs : IsKnown(u)
  BY DEF LateIsKnown, PasswordIsHash, IsKnown
<1>g. TypeOK' /\ \A k \in Tokens : Grows(k)
  BY Growing
<1>n. \A u \in Tabs : ~Busy(u)' => IsKnown(u)'
  BY DEF IsKnown, Issues
<1>s. \A u \in Tabs : Same(u) /\ Busy(u)' => Core(u) /\ req'[u].commit = req[u].commit
  BY DEF Same, Busy
<1>1. ASSUME UNCHANGED <<passwords, undone, late, ended>>,
             NEW u \in Tabs, Core(u), req'[u].commit = "todo" => req[u].commit = "todo"
      PROVE  IsKnown(u)'
  BY <1>1, <1>g, <1>k, StaysKnown
<1>2. ASSUME Expire \/ UNCHANGED vars PROVE PasswordIsHash' /\ \A u \in Tabs : IsKnown(u)'
  <2>1. /\ req' = req /\ UNCHANGED <<hash, passwords, undone, late, ended>>
    BY <1>2 DEF Expire, vars
  <2>2. \A u \in Tabs : Busy(u)' => Core(u) /\ req'[u].commit = req[u].commit
    BY <2>1 DEF Core, Busy
  <2>3. QED
    BY <1>1, <1>k, <1>n, <2>1, <2>2 DEF PasswordIsHash
<1>3. ASSUME NEW t \in Tabs, Sent(t) PROVE PasswordIsHash' /\ \A u \in Tabs : IsKnown(u)'
  <2>1. /\ \A u \in Tabs \ {t} : Same(u)
        /\ UNCHANGED <<hash, passwords, undone, late, ended>> /\ req'[t].plan = "unread"
    BY <1>3, SendFrame
  <2>2. IsKnown(t)'
    BY <2>1 DEF IsKnown, Issues
  <2>3. QED
    BY <1>1, <1>k, <1>n, <1>s, <2>1, <2>2 DEF PasswordIsHash
<1>4. ASSUME NEW t \in Tabs, NEW plan \in Plans, NEW family \in Families \cup {None},
             NEW new \in Tokens \cup {None}, NEW rehash \in BOOLEAN,
             Read(t, plan, family, new, rehash)
      PROVE  PasswordIsHash' /\ \A u \in Tabs : IsKnown(u)'
  <2>0. Decided(t, plan, family, new)
    BY <1>4, ReadFrame
  <2>1. /\ \A u \in Tabs \ {t} : Same(u)
        /\ UNCHANGED <<token, hash, passwords, undone, late, ended>>
        /\ req'[t].plan = plan /\ req'[t].family = family /\ req'[t].pw = req[t].pw
        /\ req'[t].presented = req[t].presented
    BY <2>0 DEF Decided
  <2>2. CASE plan = "issue"
    <3>1. req[t].pw = hash
      BY <1>4, <2>2 DEF Read
    <3>2. IsKnown(t)'
      BY <1>k, <2>1, <2>2, <3>1 DEF IsKnown, PasswordIsHash
    <3>3. QED
      BY <1>1, <1>k, <1>n, <1>s, <2>1, <3>2 DEF PasswordIsHash
  <2>3. CASE plan = "rotate"
    <3>1. /\ req[t].presented \in Tokens /\ IsLive(req[t].presented)
          /\ family = token[req[t].presented].family
      BY <1>4, <2>3 DEF Read
    <3>2. \/ req[t].presented \in late
          \/ family \notin ended /\ (token[req[t].presented].pw = passwords \/ undone)
      BY <3>1 DEF EndedStaysEnded
    <3>3. IsKnown(t)'
      BY <2>1, <2>3, <3>2 DEF IsKnown
    <3>4. QED
      BY <1>1, <1>k, <1>n, <1>s, <2>1, <3>3 DEF PasswordIsHash
  <2>4. CASE plan \notin {"issue", "rotate"}
    <3>1. IsKnown(t)'
      BY <2>1, <2>4 DEF IsKnown, Issues
    <3>2. QED
      BY <1>1, <1>k, <1>n, <1>s, <2>1, <3>1 DEF PasswordIsHash
  <2>5. QED
    BY <2>2, <2>3, <2>4
<1>5. ASSUME NEW t \in Tabs, CommitFails(t) \/ Answer(t) \/ AnswerLost(t)
      PROVE  PasswordIsHash' /\ \A u \in Tabs : IsKnown(u)'
  <2>1. /\ \A u \in Tabs \ {t} : Same(u)
        /\ UNCHANGED <<hash, passwords, undone, late, ended>>
        /\ Busy(t) /\ (Ending(t, "failed") \/ Answering(t))
    BY <1>5, FailFrame, AnswerFrame
  <2>2. Busy(t)' => Core(t) /\ (req'[t].commit = "todo" => req[t].commit = "todo")
    BY <2>1 DEF Ending, Answering, Busy
  <2>3. QED
    BY <1>1, <1>k, <1>n, <1>s, <2>1, <2>2 DEF PasswordIsHash
<1>6. ASSUME NEW t \in Tabs, Commit(t) PROVE PasswordIsHash' /\ \A u \in Tabs : IsKnown(u)'
  <2>1. /\ \A u \in Tabs \ {t} : Same(u)
        /\ Busy(t) /\ Ending(t, "done")
        /\ req[t].plan \in {"end", "burn", "change"} =>
              \A u \in Tabs \ {t} :
                 Issues(u) /\ (req[t].family # None => req[u].family = req[t].family)
                    => req'[u].stale = TRUE
        /\ ended' = IF req[t].plan \in {"end", "burn"} THEN ended \cup {req[t].family}
                    ELSE IF req[t].plan = "change"
                    THEN ended \cup {token[k].family : k \in {k \in Tokens : IsLive(k)}}
                    ELSE ended
    BY <1>6, CommitFrame
  <2>2. late \subseteq late'
    BY <1>6, CommitFrame
  <2>3. /\ req[t].plan # "change" => passwords' = passwords
        /\ undone => undone'
        /\ PasswordIsHash'
    BY <1>6, Passwords
  <2>4. IsKnown(t)'
    BY <2>1 DEF Ending, IsKnown, Issues, Busy
  <2>5. ASSUME NEW u \in Tabs \ {t}, Busy(u)' PROVE IsKnown(u)'
    <3>1. Core(u) /\ req'[u].commit = req[u].commit
      BY <1>s, <2>1, <2>5
    <3>2. CASE req[t].plan = "change"
      <4>1. req[t].family = None
        BY <2>1, <3>2 DEF PlansFit
      <4>2. Issues(u) => req'[u].stale = TRUE
        BY <2>1, <3>2, <4>1
      <4>3. Issues(u)' => Issues(u)
        BY <3>1 DEF Core, Issues
      <4>4. QED
        BY <4>2, <4>3 DEF IsKnown
    <3>3. CASE req[t].plan # "change"
      <4>1. Issues(u) /\ ~req'[u].stale /\ req[u].family \in ended' => req[u].family \in ended
        BY <2>1, <3>3
      <4>2. QED
        BY <1>g, <1>k, <2>2, <2>3, <3>1, <3>3, <4>1, StaysKnown
    <3>4. QED
      BY <3>2, <3>3
  <2>6. QED
    BY <1>n, <2>3, <2>4, <2>5
<1>7. PasswordIsHash' /\ \A u \in Tabs : IsKnown(u)'
  BY <1>2, <1>3, <1>4, <1>5, <1>6 DEF Step
<1>8. QED
  BY <1>7 DEF LateIsKnown, PasswordIsHash, IsKnown

LEMMA EndedStays ==
    ASSUME TypeOK, PlansFit, NumbersAreFresh, LateIsKnown, EndedStaysEnded, Step
    PROVE  EndedStaysEnded'
<1>g. \A k \in Tokens : Grows(k)
  BY Growing
<1>1. CASE \A t \in Tabs : ~Commit(t)
  <2>1. UNCHANGED <<late, ended, passwords, undone>>
    <3>1. CASE Expire \/ UNCHANGED vars
      BY <3>1 DEF Expire, vars
    <3>2. ASSUME NEW t \in Tabs, Sent(t) PROVE UNCHANGED <<late, ended, passwords, undone>>
      BY <3>2, SendFrame
    <3>3. ASSUME NEW t \in Tabs, NEW plan \in Plans, NEW family \in Families \cup {None},
                 NEW new \in Tokens \cup {None}, NEW rehash \in BOOLEAN,
                 Read(t, plan, family, new, rehash)
          PROVE  UNCHANGED <<late, ended, passwords, undone>>
      BY <3>3 DEF Read, Decide
    <3>4. ASSUME NEW t \in Tabs, CommitFails(t) \/ Answer(t) \/ AnswerLost(t)
          PROVE  UNCHANGED <<late, ended, passwords, undone>>
      BY <3>4 DEF CommitFails, Answer, AnswerLost
    <3>5. QED
      BY <1>1, <3>1, <3>2, <3>3, <3>4 DEF Step
  <2>2. ASSUME NEW k \in Tokens, IsLive(k)'
        PROVE  IsLive(k) /\ token'[k].family = token[k].family /\ token'[k].pw = token[k].pw
    <3>1. IsLive(k) /\ token'[k].family = token[k].family
      BY <1>1, <2>2, NewLife
    <3>2. QED
      BY <1>g, <3>1 DEF Grows, IsLive
  <2>3. QED
    BY <2>1, <2>2 DEF EndedStaysEnded
<1>2. ASSUME NEW t \in Tabs, Commit(t) PROVE EndedStaysEnded'
  <2>1. /\ Busy(t) /\ req[t].commit = "todo"
        /\ ended' = IF req[t].plan \in {"end", "burn"} THEN ended \cup {req[t].family}
                    ELSE IF req[t].plan = "change"
                    THEN ended \cup {token[k].family : k \in {k \in Tokens : IsLive(k)}}
                    ELSE ended
        /\ late' = IF Issues(t) /\ (req[t].stale \/ (req[t].plan = "rotate" /\ req[t].presented \in late))
                   THEN late \cup {req[t].new} ELSE late
    BY <1>2, CommitFrame
  <2>2. /\ req[t].plan # "change" => passwords' = passwords
        /\ undone => undone'
    BY <1>2, Passwords
  <2>3. /\ Issues(t) => Put(t)
        /\ \A k \in Tokens : ~(Issues(t) /\ k = req[t].new) =>
              IF Hits(t, k) THEN Voided(k) ELSE token'[k] = token[k]
    BY <1>2, CommitRows
  <2>4. ASSUME NEW k \in Tokens, IsLive(k)', k \notin late'
        PROVE  token'[k].family \notin ended' /\ (token'[k].pw = passwords' \/ undone')
    <3>1. CASE Issues(t) /\ k = req[t].new
      <4>1. ~req[t].stale /\ (req[t].plan = "rotate" => req[t].presented \notin late)
        BY <2>1, <2>4, <3>1
      <4>2. CASE req[t].plan = "issue"
        <5>1. req[t].pw = passwords \/ undone
          BY <2>1, <3>1, <4>1, <4>2 DEF LateIsKnown
        <5>2. req[t].new \notin ended /\ req[t].family = req[t].new
          BY <2>1, <3>1, <4>2 DEF NumbersAreFresh, PlansFit
        <5>3. token'[k].family = req[t].family /\ token'[k].pw = req[t].pw
          BY <2>3, <3>1, <4>2 DEF Put
        <5>4. QED
          BY <2>1, <2>2, <4>2, <5>1, <5>2, <5>3
      <4>3. CASE req[t].plan = "rotate"
        <5>1. req[t].family \notin ended /\ (token[req[t].presented].pw = passwords \/ undone)
          BY <2>1, <3>1, <4>1, <4>3 DEF LateIsKnown
        <5>2. token'[k].family = req[t].family /\ token'[k].pw = token[req[t].presented].pw
          BY <2>3, <3>1, <4>3 DEF Put
        <5>3. QED
          BY <2>1, <2>2, <4>3, <5>1, <5>2
      <4>4. QED
        BY <3>1, <4>2, <4>3 DEF Issues
    <3>2. CASE ~(Issues(t) /\ k = req[t].new)
      <4>1. ~Hits(t, k) /\ token'[k] = token[k] /\ IsLive(k)
        BY <2>3, <2>4, <3>2 DEF Voided, IsLive
      <4>2. k \notin late
        BY <2>1, <2>4
      <4>3. token[k].family \notin ended /\ (token[k].pw = passwords \/ undone)
        BY <4>1, <4>2 DEF EndedStaysEnded
      <4>4. req[t].plan # "change"
        <5>1. req[t].plan = "change" => req[t].family = None
          BY <2>1 DEF PlansFit
        <5>2. QED
          BY <4>1, <5>1 DEF Hits
      <4>5. req[t].plan \in {"end", "burn"} => token[k].family # req[t].family
        BY <4>1 DEF Hits
      <4>6. QED
        BY <2>1, <2>2, <4>1, <4>3, <4>4, <4>5
    <3>3. QED
      BY <3>1, <3>2
  <2>5. QED
    BY <2>4 DEF EndedStaysEnded
<1>3. QED
  BY <1>1, <1>2

-----------------------------------------------------------------------------
(***************************************************************************)
(* The cookies.                                                            *)
(***************************************************************************)
\* Where the cookie of a browser stands.
Stands(b) ==
    cookie[b] # None =>
       \/ \E t \in Tabs : /\ Issues(t) /\ Browser[t] = b /\ req[t].new = cookie[b]
                           /\ req[t].answered
       \/ cookie[b] \in disturbed /\ token[cookie[b]] = None
       \/ Holds(cookie[b])
       \/ Awaited(cookie[b], b)

\* Nobody has the token of a request that was not answered.
IsUnsent(t) ==
    Issues(t) /\ ~req[t].answered =>
       /\ req[t].commit = "done" => Holds(req[t].new)
       /\ \A b \in Browsers : cookie[b] # req[t].new
       /\ \A u \in Tabs : Busy(u) => req[u].presented # req[t].new

\* A request that was answered has taken the cookie's place.
HasReplaced(t) ==
    Rotates(t) /\ req[t].answered /\ req[t].family \notin disturbed =>
       \A b \in Browsers : cookie[b] # req[t].presented

LEMMA StaysEnded ==
    ASSUME TypeOK, PlansFit, Step
    PROVE  ended \subseteq ended'
<1>1. CASE Expire \/ UNCHANGED vars
  BY <1>1 DEF Expire, vars
<1>2. ASSUME NEW t \in Tabs, Sent(t) PROVE ended \subseteq ended'
  BY <1>2, SendFrame
<1>3. ASSUME NEW t \in Tabs, NEW plan \in Plans, NEW family \in Families \cup {None},
             NEW new \in Tokens \cup {None}, NEW rehash \in BOOLEAN,
             Read(t, plan, family, new, rehash)
      PROVE  ended \subseteq ended'
  BY <1>3 DEF Read, Decide
<1>4. ASSUME NEW t \in Tabs, Commit(t) PROVE ended \subseteq ended'
  <2>1. ended' = IF req[t].plan \in {"end", "burn"} THEN ended \cup {req[t].family}
                 ELSE IF req[t].plan = "change"
                 THEN ended \cup {token[k].family : k \in {k \in Tokens : IsLive(k)}}
                 ELSE ended
    BY <1>4, CommitFrame
  <2>2. QED
    BY <2>1
<1>5. ASSUME NEW t \in Tabs, CommitFails(t) \/ Answer(t) \/ AnswerLost(t) PROVE ended \subseteq ended'
  BY <1>5 DEF CommitFails, Answer, AnswerLost
<1>6. QED
  BY <1>1, <1>2, <1>3, <1>4, <1>5 DEF Step

\* A token goes on to hold unless it is rotated.
LEMMA HoldsStays ==
    ASSUME TypeOK, PlansFit, NumbersAreFresh, Step, NEW k \in Tokens, Holds(k),
           \A t \in Tabs : Commit(t) /\ req[t].plan = "rotate" => req[t].presented # k
    PROVE  Holds(k)'
<1>g. Grows(k) /\ token[k] # None
  BY Growing DEF Holds
<1>d. disturbed \subseteq disturbed' /\ ended \subseteq ended'
  BY StaysDisturbed, StaysEnded
<1>1. CASE token[k].expired \/ token[k].family \in ended \cup disturbed
  BY <1>1, <1>d, <1>g DEF Grows, Holds
<1>2. ASSUME IsLive(k), IsLive(k)' PROVE Holds(k)'
  BY <1>2, <1>g DEF Grows, Holds
<1>3. CASE IsLive(k)
  <2>1. CASE Expire
    <3>1. token'[k].revoked = token[k].revoked
      BY <1>g, <2>1, ExpireRows
    <3>2. QED
      BY <1>2, <1>3, <1>g, <3>1 DEF IsLive, Grows
  <2>2. ASSUME token' = token PROVE Holds(k)'
    BY <1>2, <1>3, <2>2 DEF IsLive
  <2>3. CASE UNCHANGED vars
    BY <2>2, <2>3 DEF vars
  <2>4. ASSUME NEW t \in Tabs, Sent(t) \/ CommitFails(t) \/ Answer(t) \/ AnswerLost(t) PROVE Holds(k)'
    BY <2>2, <2>4, SendFrame DEF CommitFails, Answer, AnswerLost
  <2>5. ASSUME NEW t \in Tabs, NEW plan \in Plans, NEW family \in Families \cup {None},
               NEW new \in Tokens \cup {None}, NEW rehash \in BOOLEAN,
               Read(t, plan, family, new, rehash)
        PROVE  Holds(k)'
    BY <2>2, <2>5 DEF Read, Decide
  <2>6. ASSUME NEW t \in Tabs, Commit(t) PROVE Holds(k)'
    <3>1. req[t].commit = "todo" /\ Busy(t)
      BY <2>6, CommitFrame
    <3>2. ~(Issues(t) /\ k = req[t].new)
      BY <1>g, <3>1 DEF NumbersAreFresh
    <3>3. IF Hits(t, k) THEN Voided(k) ELSE token'[k] = token[k]
      BY <2>6, <3>2, CommitRows
    <3>4. CASE ~Hits(t, k)
      BY <1>2, <1>3, <3>3, <3>4 DEF IsLive
    <3>5. CASE Hits(t, k) /\ req[t].plan = "expire"
      <4>1. token[k].expired
        BY <3>1, <3>5 DEF Hits, PlansFit
      <4>2. QED
        BY <1>1, <4>1
    <3>6. CASE Hits(t, k) /\ req[t].plan \in {"end", "burn", "change"}
      <4>1. ended' = IF req[t].plan \in {"end", "burn"} THEN ended \cup {req[t].family}
                     ELSE IF req[t].plan = "change"
                     THEN ended \cup {token[l].family : l \in {l \in Tokens : IsLive(l)}}
                     ELSE ended
        BY <2>6, CommitFrame
      <4>2. req[t].plan \in {"end", "burn"} => req[t].family # None
        BY <3>1 DEF PlansFit
      <4>3. token[k].family \in ended'
        BY <1>3, <3>6, <4>1, <4>2 DEF Hits
      <4>4. QED
        BY <1>g, <4>3 DEF Grows, Holds
    <3>7. CASE Hits(t, k) /\ req[t].plan = "rotate"
      BY <2>6, <3>7 DEF Hits
    <3>8. QED
      BY <3>4, <3>5, <3>6, <3>7 DEF Hits
  <2>7. QED
    BY <2>1, <2>3, <2>4, <2>5, <2>6 DEF Step
<1>4. QED
  BY <1>1, <1>3 DEF Holds

LEMMA HoldsQuiet ==
    ASSUME TypeOK, PlansFit, NumbersAreFresh, Step, token' = token \/ Expire,
           NEW k \in Tokens, Holds(k)
    PROVE  Holds(k)'
<1>g. Grows(k) /\ token[k] # None
  BY Growing DEF Holds
<1>d. disturbed \subseteq disturbed' /\ ended \subseteq ended'
  BY StaysDisturbed, StaysEnded
<1>1. CASE token[k].expired \/ token[k].family \in ended \cup disturbed
  BY <1>1, <1>d, <1>g DEF Grows, Holds
<1>2. CASE IsLive(k)
  <2>1. token'[k].revoked = token[k].revoked
    BY <1>g, ExpireRows
  <2>2. QED
    BY <1>2, <1>g, <2>1 DEF IsLive, Grows, Holds
<1>3. QED
  BY <1>1, <1>2 DEF Holds

LEMMA StandsQuiet ==
    ASSUME cookie' = cookie, NEW b \in Browsers, Stands(b), disturbed \subseteq disturbed',
           cookie[b] # None => cookie[b] \in Tokens,
           \A k \in Tokens : token[k] = None => token'[k] = None,
           \A k \in Tokens : Grows(k),
           \A k \in Tokens : Holds(k) => Holds(k)',
           \A u \in Tabs : Issues(u) => /\ Core(u) /\ req'[u].commit = req[u].commit
                                        /\ req'[u].answered = req[u].answered
    PROVE  Stands(b)'
<1>1. SUFFICES ASSUME cookie[b] # None PROVE Stands(b)'
  BY DEF Stands
<1>i. \A u \in Tabs : Issues(u) => Issues(u)'
  BY DEF Issues, Core, Busy
<1>2. ASSUME NEW t \in Tabs, Issues(t), Browser[t] = b, req[t].new = cookie[b], req[t].answered
      PROVE  Stands(b)'
  BY <1>2, <1>i DEF Stands, Core
<1>3. CASE cookie[b] \in disturbed /\ token[cookie[b]] = None
  BY <1>1, <1>3 DEF Stands
<1>4. CASE Holds(cookie[b])
  BY <1>1, <1>4 DEF Stands, Holds, IsLive
<1>5. CASE Awaited(cookie[b], b)
  <2>1. PICK t \in Tabs : /\ Rotates(t) /\ Browser[t] = b /\ req[t].presented = cookie[b]
                          /\ req[t].commit = "done" /\ token[cookie[b]] # None
    BY <1>5 DEF Awaited
  <2>2. Issues(t)
    BY <2>1 DEF Rotates, Issues
  <2>3. /\ Rotates(t)' /\ req'[t].presented = cookie'[b]
        /\ req'[t].commit = "done" /\ token'[cookie'[b]] # None
    BY <1>1, <2>1, <2>2 DEF Rotates, Core, Busy, Grows
  <2>4. Awaited(cookie[b], b)'
    BY <2>1, <2>3 DEF Awaited
  <2>5. QED
    BY <2>4 DEF Stands
<1>6. QED
  BY <1>1, <1>2, <1>3, <1>4, <1>5 DEF Stands

LEMMA UnsentStays ==
    ASSUME NEW u \in Tabs, IsUnsent(u),
           Issues(u)' => Core(u) /\ req'[u].answered = req[u].answered,
           Issues(u) /\ ~req[u].answered /\ req'[u].commit = "done" => Holds(req[u].new)',
           Issues(u) /\ ~req[u].answered =>
              \A b \in Browsers : cookie'[b] = cookie[b] \/ cookie'[b] # req[u].new,
           \A v \in Tabs : Busy(v)' =>
              \/ Busy(v) /\ req'[v].presented = req[v].presented
              \/ Browser[v] \in Browsers /\ req'[v].presented = cookie[Browser[v]]
    PROVE  IsUnsent(u)'
<1>1. SUFFICES ASSUME Issues(u)', ~req'[u].answered
               PROVE  /\ req'[u].commit = "done" => Holds(req[u].new)'
                      /\ \A b \in Browsers : cookie'[b] # req'[u].new
                      /\ \A v \in Tabs : Busy(v)' => req'[v].presented # req'[u].new
  BY DEF IsUnsent
<1>2. /\ Issues(u) /\ ~req[u].answered /\ req'[u].new = req[u].new
  BY <1>1 DEF Core, Issues
<1>3. /\ \A b \in Browsers : cookie[b] # req[u].new
      /\ \A v \in Tabs : Busy(v) => req[v].presented # req[u].new
  BY <1>2 DEF IsUnsent
<1>4. req'[u].commit = "done" => Holds(req[u].new)'
  BY <1>2
<1>5. QED
  BY <1>2, <1>3, <1>4

LEMMA ReplacedStays ==
    ASSUME NEW u \in Tabs, HasReplaced(u), disturbed \subseteq disturbed',
           Rotates(u)' => Core(u) /\ req'[u].answered = req[u].answered,
           Rotates(u) /\ req[u].answered =>
              \A b \in Browsers : cookie'[b] = cookie[b] \/ cookie'[b] # req[u].presented
    PROVE  HasReplaced(u)'
<1>1. SUFFICES ASSUME Rotates(u)', req'[u].answered, req'[u].family \notin disturbed'
               PROVE  \A b \in Browsers : cookie'[b] # req'[u].presented
  BY DEF HasReplaced
<1>2. /\ Rotates(u) /\ req[u].answered /\ req[u].family \notin disturbed
      /\ req'[u].presented = req[u].presented
  BY <1>1 DEF Core, Rotates
<1>3. QED
  BY <1>2 DEF HasReplaced

LEMMA CookieParts ==
    CookieIsGood <=> /\ \A b \in Browsers : Stands(b)
                     /\ \A t \in Tabs : IsUnsent(t)
                     /\ \A t \in Tabs : HasReplaced(t)
  BY DEF CookieIsGood, Stands, IsUnsent, HasReplaced

\* A request begins, or is read; it presents what it did or what its browser has.
Begins(u) ==
    /\ ~Issues(u) /\ req'[u] # None /\ req'[u].answered = FALSE /\ IsUnsent(u)'
    /\ \/ Busy(u) /\ req'[u].presented = req[u].presented
       \/ Browser[u] \in Browsers /\ req'[u].presented = cookie[Browser[u]]

LEMMA GoodQuiet ==
    ASSUME TypeOK, PlansFit, NumbersAreFresh, CookieIsGood, Step, token' = token \/ Expire,
           cookie' = cookie, \A u \in Tabs : Same(u) \/ Begins(u)
    PROVE  CookieIsGood'
<1>0. /\ \A b \in Browsers : Stands(b)
      /\ \A u \in Tabs : IsUnsent(u)
      /\ \A u \in Tabs : HasReplaced(u)
  BY CookieParts
<1>t. /\ \A b \in Browsers : cookie[b] \in Tokens \cup {None}
      /\ \A u \in Tabs : Issues(u) => req[u].new \in Tokens
  <2>1. \A u \in Tabs : Issues(u) => req[u].new \in Tokens \cup {None} /\ req[u].new # None
    BY RequestTypes DEF Issues, PlansFit
  <2>2. QED
    BY <2>1, TokenTypes
<1>g. \A k \in Tokens : Grows(k)
  BY Growing
<1>d. disturbed \subseteq disturbed'
  BY StaysDisturbed
<1>h. \A k \in Tokens : Holds(k) => Holds(k)'
  BY HoldsQuiet
<1>1. \A k \in Tokens : token[k] = None => token'[k] = None
  BY ExpireRows
<1>2. \A u \in Tabs : Issues(u) => /\ Core(u) /\ req'[u].commit = req[u].commit
                                   /\ req'[u].answered = req[u].answered
  BY DEF Same, Begins, Issues
<1>3. \A b \in Browsers : Stands(b)'
  BY <1>0, <1>t, <1>g, <1>d, <1>h, <1>1, <1>2, StandsQuiet
<1>4. \A v \in Tabs : Busy(v)' =>
              \/ Busy(v) /\ req'[v].presented = req[v].presented
              \/ Browser[v] \in Browsers /\ req'[v].presented = cookie[Browser[v]]
  BY DEF Same, Begins, Core, Busy
<1>5. ASSUME NEW u \in Tabs PROVE IsUnsent(u)'
  <2>1. CASE Begins(u)
    BY <2>1 DEF Begins
  <2>2. CASE Same(u)
    <3>1. Issues(u)' => Core(u) /\ req'[u].answered = req[u].answered
      BY <2>2 DEF Same, Issues, Busy
    <3>2. ASSUME Issues(u), ~req[u].answered, req'[u].commit = "done" PROVE Holds(req[u].new)'
      <4>1. req[u].new \in Tokens /\ Holds(req[u].new) /\ req'[u].new = req[u].new
        BY <1>0, <1>t, <1>2, <3>2 DEF IsUnsent, Core
      <4>2. \A k \in Tokens : Holds(k) =>
               /\ token'[k] # None
               /\ ~token'[k].revoked \/ token'[k].expired \/ token'[k].family \in ended' \cup disturbed'
        BY <1>h DEF Holds, IsLive
      <4>3. QED
        BY <4>1, <4>2 DEF Holds, IsLive
    <3>3. QED
      BY <1>0, <1>4, <3>1, <3>2, UnsentStays
  <2>3. QED
    BY <2>1, <2>2
<1>6. ASSUME NEW u \in Tabs PROVE HasReplaced(u)'
  <2>1. CASE Begins(u)
    BY <2>1 DEF Begins, HasReplaced
  <2>2. CASE Same(u)
    <3>1. Rotates(u)' => Core(u) /\ req'[u].answered = req[u].answered
      BY <2>2 DEF Same, Rotates, Busy
    <3>2. QED
      BY <1>0, <1>d, <3>1, ReplacedStays
  <2>3. QED
    BY <2>1, <2>2
<1>7. QED
  BY <1>3, <1>5, <1>6 DEF CookieIsGood, Stands, IsUnsent, HasReplaced

LEMMA GoodCommit ==
    ASSUME TypeOK, PlansFit, NumbersAreFresh, OneHolder, CookieIsGood, Step,
           NEW t \in Tabs, Commit(t)
    PROVE  CookieIsGood'
<1>0. /\ \A b \in Browsers : Stands(b)
      /\ \A u \in Tabs : IsUnsent(u)
      /\ \A u \in Tabs : HasReplaced(u)
  BY CookieParts
<1>t. /\ \A b \in Browsers : cookie[b] \in Tokens \cup {None}
      /\ \A u \in Tabs : Issues(u) => req[u].new \in Tokens
  <2>1. \A u \in Tabs : Issues(u) => req[u].new \in Tokens \cup {None} /\ req[u].new # None
    BY RequestTypes DEF Issues, PlansFit
  <2>2. QED
    BY <2>1, TokenTypes
<1>g. \A k \in Tokens : Grows(k)
  BY Growing
<1>1. /\ \A u \in Tabs \ {t} : Same(u)
      /\ Busy(t) /\ req[t].commit = "todo" /\ Ending(t, "done")
      /\ cookie' = cookie /\ disturbed' = disturbed
  BY CommitFrame
<1>2. \A u \in Tabs : Commit(u) => u = t
  <2>1. ASSUME NEW u \in Tabs \ {t}, Commit(u) PROVE FALSE
    <3>1. Busy(u) /\ req[u].commit = "todo" /\ Ending(u, "done")
      BY <2>1, CommitFrame
    <3>2. QED
      BY <1>1, <3>1 DEF Same, Ending, Core
  <2>2. QED
    BY <2>1
<1>3. \A k \in Tokens : Holds(k) /\ ~(req[t].plan = "rotate" /\ req[t].presented = k) =>
         /\ token'[k] # None
         /\ ~token'[k].revoked \/ token'[k].expired \/ token'[k].family \in ended' \cup disturbed'
  <2>1. ASSUME NEW k \in Tokens, Holds(k), ~(req[t].plan = "rotate" /\ req[t].presented = k)
        PROVE  Holds(k)'
    BY <2>1, <1>2, HoldsStays
  <2>2. QED
    BY <2>1 DEF Holds, IsLive
\* The row that is written holds.
<1>4. ASSUME Issues(t) PROVE token'[req[t].new] # None /\ ~token'[req[t].new].revoked
  BY <1>4, CommitRows DEF Put
<1>5. ASSUME NEW b \in Browsers PROVE Stands(b)'
  <2>1. SUFFICES ASSUME cookie[b] # None PROVE Stands(b)'
    BY <1>1 DEF Stands
  <2>c. cookie[b] \in Tokens /\ cookie'[b] = cookie[b]
    BY <1>1, <1>t, <2>1
  <2>2. CASE Issues(t) /\ req[t].new = cookie[b]
    BY <1>4, <2>2, <2>c DEF Stands, Holds, IsLive
  <2>3. ASSUME NEW s \in Tabs \ {t}, Issues(s), Browser[s] = b, req[s].new = cookie[b], req[s].answered
        PROVE  Stands(b)'
    <3>1. Issues(s)' /\ req'[s].new = cookie'[b] /\ req'[s].answered
      BY <1>1, <2>3, <2>c DEF Same, Core, Issues, Busy
    <3>2. QED
      BY <2>3, <3>1 DEF Stands
  <2>4. CASE cookie[b] \in disturbed /\ token[cookie[b]] = None /\ ~(Issues(t) /\ req[t].new = cookie[b])
    <3>1. token'[cookie[b]] = None
      BY <2>4, <2>c, CommitRows DEF Voided
    <3>2. QED
      BY <1>1, <2>4, <3>1 DEF Stands
  <2>5. CASE Holds(cookie[b]) /\ ~(req[t].plan = "rotate" /\ req[t].presented = cookie[b])
    BY <1>3, <2>5, <2>c DEF Stands, Holds, IsLive
  <2>6. CASE Holds(cookie[b]) /\ req[t].plan = "rotate" /\ req[t].presented = cookie[b]
    <3>1. /\ token[cookie[b]] # None /\ token[cookie[b]].family = req[t].family
          /\ token'[cookie[b]] # None /\ token'[cookie[b]].family = req[t].family
      BY <1>1, <1>g, <2>6, <2>c DEF PlansFit, Grows
    <3>2. CASE req[t].family \in disturbed
      BY <1>1, <2>c, <3>1, <3>2 DEF Stands, Holds
    <3>3. CASE req[t].family \notin disturbed
      <4>1. ~req[t].answered
        BY <1>0, <1>1, <2>6, <3>3 DEF HasReplaced, Rotates
      <4>2. Browser[t] = b
        BY <1>1, <2>6, <2>c DEF OneHolder, Knows, Browsers
      <4>3. /\ Rotates(t)' /\ req'[t].presented = cookie'[b] /\ req'[t].commit = "done"
        BY <1>1, <2>6, <2>c, <4>1 DEF Ending, Core, Rotates, Busy
      <4>4. QED
        BY <2>c, <3>1, <4>2, <4>3 DEF Stands, Awaited
    <3>4. QED
      BY <3>2, <3>3
  <2>7. CASE Awaited(cookie[b], b)
    <3>1. PICK s \in Tabs : /\ Rotates(s) /\ Browser[s] = b /\ req[s].presented = cookie[b]
                            /\ req[s].commit = "done" /\ token[cookie[b]] # None
      BY <2>7 DEF Awaited
    <3>2. /\ Rotates(s)' /\ req'[s].presented = cookie'[b]
          /\ req'[s].commit = "done" /\ token'[cookie'[b]] # None
      BY <1>1, <1>g, <2>c, <3>1 DEF Same, Core, Rotates, Busy, Grows
    <3>3. QED
      BY <3>1, <3>2 DEF Stands, Awaited
  <2>8. QED
    BY <1>0, <2>1, <2>2, <2>3, <2>4, <2>5, <2>6, <2>7 DEF Stands
<1>6. ASSUME NEW u \in Tabs PROVE IsUnsent(u)'
  <2>1. \A v \in Tabs : Busy(v)' => Busy(v) /\ req'[v].presented = req[v].presented
    BY <1>1 DEF Same, Core, Ending, Busy
  <2>2. CASE u # t
    <3>1. Issues(u)' => Core(u) /\ req'[u].answered = req[u].answered
      BY <1>1, <2>2 DEF Same, Issues, Busy
    <3>2. ASSUME Issues(u), ~req[u].answered, req'[u].commit = "done" PROVE Holds(req[u].new)'
      <4>1. req[u].commit = "done" /\ req'[u].new = req[u].new
        BY <1>1, <2>2, <3>2 DEF Same, Core, Issues
      <4>2. req[u].new \in Tokens /\ Holds(req[u].new) /\ req[t].presented # req[u].new
        BY <1>0, <1>1, <1>t, <3>2, <4>1 DEF IsUnsent
      <4>3. QED
        BY <1>3, <4>1, <4>2 DEF Holds, IsLive
    <3>3. QED
      BY <1>0, <1>1, <2>1, <3>1, <3>2, UnsentStays
  <2>3. CASE u = t /\ Issues(t)' /\ ~req'[t].answered
    <3>1. Issues(t) /\ ~req[t].answered /\ req'[t].new = req[t].new
      BY <1>1, <2>3 DEF Ending, Core, Issues, Busy
    <3>2. /\ \A b \in Browsers : cookie[b] # req[t].new
          /\ \A v \in Tabs : Busy(v) => req[v].presented # req[t].new
      BY <1>0, <3>1 DEF IsUnsent
    <3>3. Holds(req[t].new)'
      BY <1>4, <3>1 DEF Holds, IsLive
    <3>4. QED
      BY <1>1, <2>1, <2>3, <3>1, <3>2, <3>3 DEF IsUnsent
  <2>4. QED
    BY <2>2, <2>3 DEF IsUnsent
<1>7. ASSUME NEW u \in Tabs PROVE HasReplaced(u)'
  <2>1. CASE u = t
    BY <1>1, <2>1 DEF HasReplaced, Rotates, Ending, Busy
  <2>2. CASE u # t
    <3>1. Rotates(u)' => Core(u) /\ req'[u].answered = req[u].answered
      BY <1>1, <2>2 DEF Same, Rotates, Busy
    <3>2. QED
      BY <1>0, <1>1, <3>1, ReplacedStays
  <2>3. QED
    BY <2>1, <2>2
<1>8. QED
  BY <1>5, <1>6, <1>7 DEF CookieIsGood, Stands, IsUnsent, HasReplaced

LEMMA GoodFails ==
    ASSUME TypeOK, PlansFit, NumbersAreFresh, CookieIsGood, Step, NEW t \in Tabs, CommitFails(t)
    PROVE  CookieIsGood'
<1>0. /\ \A b \in Browsers : Stands(b)
      /\ \A u \in Tabs : IsUnsent(u)
      /\ \A u \in Tabs : HasReplaced(u)
  BY CookieParts
<1>t. /\ \A b \in Browsers : cookie[b] \in Tokens \cup {None}
      /\ \A u \in Tabs : Issues(u) => req[u].new \in Tokens
  <2>1. \A u \in Tabs : Issues(u) => req[u].new \in Tokens \cup {None} /\ req[u].new # None
    BY RequestTypes DEF Issues, PlansFit
  <2>2. QED
    BY <2>1, TokenTypes
<1>d. disturbed \subseteq disturbed'
  BY StaysDisturbed
<1>1. /\ \A u \in Tabs \ {t} : Same(u)
      /\ Busy(t) /\ req[t].commit = "todo" /\ Ending(t, "failed")
      /\ disturbed' = disturbed \cup ({req[t].family, req[t].new} \ {None})
      /\ cookie' = cookie /\ token' = token /\ ended' = ended
  BY FailFrame
<1>2. \A k \in Tokens : Holds(k) =>
         /\ token'[k] # None
         /\ ~token'[k].revoked \/ token'[k].expired \/ token'[k].family \in ended' \cup disturbed'
  BY <1>1, <1>d DEF Holds, IsLive
<1>3. ASSUME NEW b \in Browsers PROVE Stands(b)'
  <2>1. SUFFICES ASSUME cookie[b] # None PROVE Stands(b)'
    BY <1>1 DEF Stands
  <2>c. cookie[b] \in Tokens /\ cookie'[b] = cookie[b]
    BY <1>1, <1>t, <2>1
  <2>2. CASE Issues(t) /\ req[t].new = cookie[b]
    <3>1. token[cookie[b]] = None
      BY <1>1, <2>2 DEF NumbersAreFresh
    <3>2. cookie[b] \in disturbed'
      BY <1>1, <2>1, <2>2
    <3>3. QED
      BY <1>1, <2>c, <3>1, <3>2 DEF Stands
  <2>3. ASSUME NEW s \in Tabs \ {t}, Issues(s), Browser[s] = b, req[s].new = cookie[b], req[s].answered
        PROVE  Stands(b)'
    <3>1. Issues(s)' /\ req'[s].new = cookie'[b] /\ req'[s].answered
      BY <1>1, <2>3, <2>c DEF Same, Core, Issues, Busy
    <3>2. QED
      BY <2>3, <3>1 DEF Stands
  <2>4. CASE cookie[b] \in disturbed /\ token[cookie[b]] = None
    BY <1>1, <1>d, <2>4 DEF Stands
  <2>5. CASE Holds(cookie[b])
    BY <1>2, <2>5, <2>c DEF Stands, Holds, IsLive
  <2>6. CASE Awaited(cookie[b], b)
    <3>1. PICK s \in Tabs : /\ Rotates(s) /\ Browser[s] = b /\ req[s].presented = cookie[b]
                            /\ req[s].commit = "done" /\ token[cookie[b]] # None
      BY <2>6 DEF Awaited
    <3>2. /\ Rotates(s)' /\ req'[s].presented = cookie'[b]
          /\ req'[s].commit = "done" /\ token'[cookie'[b]] # None
      BY <1>1, <2>c, <3>1 DEF Same, Core, Rotates, Busy
    <3>3. QED
      BY <3>1, <3>2 DEF Stands, Awaited
  <2>7. QED
    BY <1>0, <2>1, <2>2, <2>3, <2>4, <2>5, <2>6 DEF Stands
<1>4. ASSUME NEW u \in Tabs PROVE IsUnsent(u)'
  <2>1. \A v \in Tabs : Busy(v)' => Busy(v) /\ req'[v].presented = req[v].presented
    BY <1>1 DEF Same, Core, Ending, Busy
  <2>2. Issues(u)' /\ ~req'[u].answered =>
           /\ Core(u) /\ Issues(u) /\ ~req[u].answered
           /\ req'[u].commit = "done" => req[u].commit = "done"
    BY <1>1 DEF Same, Ending, Core, Issues, Busy
  <2>3. SUFFICES ASSUME Issues(u)', ~req'[u].answered PROVE IsUnsent(u)'
    BY DEF IsUnsent
  <2>4. ASSUME req'[u].commit = "done" PROVE Holds(req[u].new)'
    <3>1. req[u].new \in Tokens /\ Holds(req[u].new) /\ req'[u].new = req[u].new
      BY <1>0, <1>t, <2>2, <2>3, <2>4 DEF IsUnsent, Core
    <3>2. QED
      BY <1>2, <3>1 DEF Holds, IsLive
  <2>5. /\ \A b \in Browsers : cookie[b] # req[u].new
        /\ \A v \in Tabs : Busy(v) => req[v].presented # req[u].new
    BY <1>0, <2>2, <2>3 DEF IsUnsent
  <2>6. req'[u].new = req[u].new
    BY <2>2, <2>3 DEF Core
  <2>7. QED
    BY <1>1, <2>1, <2>4, <2>5, <2>6 DEF IsUnsent
<1>5. ASSUME NEW u \in Tabs PROVE HasReplaced(u)'
  <2>1. CASE u = t
    BY <1>1, <2>1 DEF HasReplaced, Rotates, Ending, Busy
  <2>2. CASE u # t
    <3>1. Rotates(u)' => Core(u) /\ req'[u].answered = req[u].answered
      BY <1>1, <2>2 DEF Same, Rotates, Busy
    <3>2. QED
      BY <1>0, <1>1, <1>d, <3>1, ReplacedStays
  <2>3. QED
    BY <2>1, <2>2
<1>6. QED
  BY <1>3, <1>4, <1>5 DEF CookieIsGood, Stands, IsUnsent, HasReplaced

LEMMA GoodLost ==
    ASSUME TypeOK, PlansFit, NumbersAreFresh, CookieIsGood, Step, NEW t \in Tabs, AnswerLost(t)
    PROVE  CookieIsGood'
<1>0. /\ \A b \in Browsers : Stands(b)
      /\ \A u \in Tabs : IsUnsent(u)
      /\ \A u \in Tabs : HasReplaced(u)
  BY CookieParts
<1>t. /\ \A b \in Browsers : cookie[b] \in Tokens \cup {None}
      /\ \A u \in Tabs : Issues(u) => req[u].new \in Tokens
      /\ None \notin Tokens /\ \A k \in Tokens : token[k] # None => token[k].family \in Tokens
  <2>1. \A u \in Tabs : Issues(u) => req[u].new \in Tokens \cup {None} /\ req[u].new # None
    BY RequestTypes DEF Issues, PlansFit
  <2>2. QED
    BY <2>1, TokenTypes
<1>d. disturbed \subseteq disturbed'
  BY StaysDisturbed
<1>1. /\ \A u \in Tabs \ {t} : Same(u)
      /\ Busy(t) /\ ~req[t].answered /\ Answering(t) /\ req[t] \in Requests
      /\ token' = token /\ ended' = ended
  BY AnswerFrame
<1>2. /\ cookie' = cookie
      /\ req[t].family # None => req[t].family \in disturbed'
  BY DEF AnswerLost
\* A rotation whose answer is lost disturbs the session it is of.
<1>3. Rotates(t) => /\ req[t].presented \in Tokens /\ token[req[t].presented] # None
                    /\ token[req[t].presented].family = req[t].family
                    /\ req[t].family \in disturbed'
  <2>1. Rotates(t) => /\ req[t].presented # None /\ token[req[t].presented] # None
                      /\ token[req[t].presented].family = req[t].family
    BY <1>1 DEF PlansFit, Rotates
  <2>2. req[t].presented \in Tokens \cup {None}
    BY <1>1, RequestTypes
  <2>3. Rotates(t) => req[t].family # None
    BY <1>t, <2>1, <2>2
  <2>4. QED
    BY <1>2, <2>1, <2>2, <2>3
<1>4. \A k \in Tokens : Holds(k) =>
         /\ token'[k] # None
         /\ ~token'[k].revoked \/ token'[k].expired \/ token'[k].family \in ended' \cup disturbed'
  BY <1>1, <1>d DEF Holds, IsLive
<1>5. ASSUME NEW b \in Browsers PROVE Stands(b)'
  <2>1. SUFFICES ASSUME cookie[b] # None PROVE Stands(b)'
    BY <1>2 DEF Stands
  <2>c. cookie[b] \in Tokens /\ cookie'[b] = cookie[b]
    BY <1>2, <1>t, <2>1
  <2>2. ASSUME NEW s \in Tabs, Issues(s), Browser[s] = b, req[s].new = cookie[b], req[s].answered
        PROVE  Stands(b)'
    <3>1. Issues(s)' /\ req'[s].new = cookie'[b] /\ req'[s].answered
      BY <1>1, <2>2, <2>c DEF Same, Core, Issues, Busy
    <3>2. QED
      BY <2>2, <3>1 DEF Stands
  <2>3. CASE cookie[b] \in disturbed /\ token[cookie[b]] = None
    BY <1>1, <1>d, <2>3, <2>c DEF Stands
  <2>4. CASE Holds(cookie[b])
    BY <1>4, <2>4, <2>c DEF Stands, Holds, IsLive
  <2>5. CASE Awaited(cookie[b], b)
    <3>1. PICK s \in Tabs : /\ Rotates(s) /\ Browser[s] = b /\ req[s].presented = cookie[b]
                            /\ req[s].commit = "done" /\ token[cookie[b]] # None
      BY <2>5 DEF Awaited
    <3>2. CASE s = t
      BY <1>1, <1>3, <2>c, <3>1, <3>2 DEF Stands, Holds
    <3>3. CASE s # t
      <4>1. /\ Rotates(s)' /\ req'[s].presented = cookie'[b]
            /\ req'[s].commit = "done" /\ token'[cookie'[b]] # None
        BY <1>1, <2>c, <3>1, <3>3 DEF Same, Core, Rotates, Busy
      <4>2. QED
        BY <3>1, <4>1 DEF Stands, Awaited
    <3>4. QED
      BY <3>2, <3>3
  <2>6. QED
    BY <1>0, <2>1, <2>2, <2>3, <2>4, <2>5 DEF Stands
<1>6. ASSUME NEW u \in Tabs PROVE IsUnsent(u)'
  <2>1. \A v \in Tabs : Busy(v)' => Busy(v) /\ req'[v].presented = req[v].presented
    BY <1>1 DEF Same, Core, Answering, Busy
  <2>2. CASE u = t
    BY <1>1, <2>2 DEF IsUnsent, Issues, Answering, Busy
  <2>3. CASE u # t
    <3>1. Issues(u)' => Core(u) /\ req'[u].answered = req[u].answered
      BY <1>1, <2>3 DEF Same, Issues, Busy
    <3>2. ASSUME Issues(u), ~req[u].answered, req'[u].commit = "done" PROVE Holds(req[u].new)'
      <4>1. req[u].new \in Tokens /\ Holds(req[u].new) /\ req'[u].new = req[u].new
        BY <1>0, <1>1, <1>t, <2>3, <3>2 DEF IsUnsent, Same, Core, Issues
      <4>2. QED
        BY <1>4, <4>1 DEF Holds, IsLive
    <3>3. QED
      BY <1>0, <1>2, <2>1, <3>1, <3>2, UnsentStays
  <2>4. QED
    BY <2>2, <2>3
<1>7. ASSUME NEW u \in Tabs PROVE HasReplaced(u)'
  <2>1. CASE u = t
    BY <1>1, <1>3, <2>1 DEF HasReplaced, Rotates, Answering, Core, Busy
  <2>2. CASE u # t
    <3>1. Rotates(u)' => Core(u) /\ req'[u].answered = req[u].answered
      BY <1>1, <2>2 DEF Same, Rotates, Busy
    <3>2. QED
      BY <1>0, <1>2, <1>d, <3>1, ReplacedStays
  <2>3. QED
    BY <2>1, <2>2
<1>8. QED
  BY <1>5, <1>6, <1>7 DEF CookieIsGood, Stands, IsUnsent, HasReplaced

LEMMA GoodAnswer ==
    ASSUME TypeOK, PlansFit, NumbersAreFresh, OneHolder, CookieIsGood, Step,
           NEW t \in Tabs, Answer(t)
    PROVE  CookieIsGood'
<1>0. /\ \A b \in Browsers : Stands(b)
      /\ \A u \in Tabs : IsUnsent(u)
      /\ \A u \in Tabs : HasReplaced(u)
  BY CookieParts
<1>t. /\ \A b \in Browsers : cookie[b] \in Tokens \cup {None}
      /\ \A u \in Tabs : Issues(u) => req[u].new \in Tokens
      /\ None \notin Tokens /\ Browser[t] \in Browsers
      /\ cookie \in [Browsers -> Tokens \cup {None}]
  <2>1. \A u \in Tabs : Issues(u) => req[u].new \in Tokens \cup {None} /\ req[u].new # None
    BY RequestTypes DEF Issues, PlansFit
  <2>2. QED
    BY <2>1, TokenTypes, AnswerFrame DEF TypeOK
<1>1. /\ \A u \in Tabs \ {t} : Same(u)
      /\ Busy(t) /\ ~req[t].answered /\ Answering(t) /\ req[t] \in Requests
      /\ token' = token /\ ended' = ended
  BY AnswerFrame
<1>2. /\ cookie' = [cookie EXCEPT ![Browser[t]] = NewCookie(t)] /\ disturbed' = disturbed
  BY DEF Answer
<1>3. /\ \A b \in Browsers \ {Browser[t]} : cookie'[b] = cookie[b]
      /\ cookie'[Browser[t]] = NewCookie(t)
  BY <1>2, <1>t
\* The browser takes the token that was issued, or keeps or drops the one it has.
<1>4. IF Issues(t) /\ req[t].commit # "failed" THEN cookie'[Browser[t]] = req[t].new
      ELSE cookie'[Browser[t]] \in {cookie[Browser[t]], None}
  <2>1. CASE Issues(t) /\ req[t].commit # "failed"
    <3>1. req[t].plan \in {"rotate", "issue"} /\ req[t].plan # "change" /\ req[t].op # "logout"
      BY <1>1, <2>1 DEF Issues, PlansFit
    <3>2. NewCookie(t) = req[t].new
      BY <2>1, <3>1 DEF NewCookie
    <3>3. QED
      BY <1>3, <2>1, <3>2
  <2>2. CASE req[t].commit = "failed"
    BY <1>3, <2>2 DEF NewCookie
  <2>3. CASE req[t].commit # "failed" /\ ~Issues(t)
    <3>1. NewCookie(t) \in {cookie[Browser[t]], None}
      BY <1>1, <2>3 DEF NewCookie, Issues
    <3>2. QED
      BY <1>3, <2>3, <3>1
  <2>4. QED
    BY <2>1, <2>2, <2>3
<1>5. \A k \in Tokens : Holds(k) =>
         /\ token'[k] # None
         /\ ~token'[k].revoked \/ token'[k].expired \/ token'[k].family \in ended' \cup disturbed'
  BY <1>1, <1>2 DEF Holds, IsLive
<1>u. Issues(t) =>
         /\ req[t].commit = "done" => Holds(req[t].new)
         /\ \A v \in Tabs : Busy(v) => req[v].presented # req[t].new
  BY <1>0, <1>1 DEF IsUnsent
<1>6. ASSUME NEW b \in Browsers PROVE Stands(b)'
  <2>1. CASE b = Browser[t] /\ Issues(t) /\ req[t].commit = "todo"
    <3>1. Issues(t)' /\ req'[t].new = cookie'[b] /\ req'[t].answered
      BY <1>1, <1>4, <2>1 DEF Answering, Core, Issues, Busy
    <3>2. QED
      BY <2>1, <3>1 DEF Stands
  <2>2. CASE b = Browser[t] /\ Issues(t) /\ req[t].commit = "done"
    <3>1. cookie'[b] = req[t].new /\ req[t].new \in Tokens /\ Holds(req[t].new)
      BY <1>4, <1>t, <1>u, <2>2
    <3>2. QED
      BY <1>5, <3>1 DEF Stands, Holds, IsLive
  <2>3. CASE ~(b = Browser[t] /\ Issues(t) /\ req[t].commit # "failed")
    <3>1. SUFFICES ASSUME cookie'[b] # None PROVE Stands(b)'
      BY DEF Stands
    <3>c. cookie[b] \in Tokens /\ cookie'[b] = cookie[b]
      BY <1>3, <1>4, <1>t, <2>3, <3>1
    <3>2. ASSUME NEW s \in Tabs, Issues(s), Browser[s] = b, req[s].new = cookie[b], req[s].answered
          PROVE  Stands(b)'
      <4>1. Issues(s)' /\ req'[s].new = cookie'[b] /\ req'[s].answered
        BY <1>1, <3>2, <3>c DEF Same, Core, Issues, Busy
      <4>2. QED
        BY <3>2, <4>1 DEF Stands
    <3>3. CASE cookie[b] \in disturbed /\ token[cookie[b]] = None
      BY <1>1, <1>2, <3>3, <3>c DEF Stands
    <3>4. CASE Holds(cookie[b])
      BY <1>5, <3>4, <3>c DEF Stands, Holds, IsLive
    <3>5. CASE Awaited(cookie[b], b)
      <4>1. PICK s \in Tabs : /\ Rotates(s) /\ Browser[s] = b /\ req[s].presented = cookie[b]
                              /\ req[s].commit = "done" /\ token[cookie[b]] # None
        BY <3>5 DEF Awaited
      <4>2. s # t
        BY <2>3, <4>1 DEF Rotates, Issues
      <4>3. /\ Rotates(s)' /\ req'[s].presented = cookie'[b]
            /\ req'[s].commit = "done" /\ token'[cookie'[b]] # None
        BY <1>1, <3>c, <4>1, <4>2 DEF Same, Core, Rotates, Busy
      <4>4. QED
        BY <4>1, <4>3 DEF Stands, Awaited
    <3>6. QED
      BY <1>0, <3>c, <1>t, <3>2, <3>3, <3>4, <3>5 DEF Stands
  <2>4. QED
    BY <1>1, <2>1, <2>2, <2>3 DEF Requests
<1>7. ASSUME NEW u \in Tabs PROVE IsUnsent(u)'
  <2>1. \A v \in Tabs : Busy(v)' => Busy(v) /\ req'[v].presented = req[v].presented
    BY <1>1 DEF Same, Core, Answering, Busy
  <2>2. CASE u = t
    BY <1>1, <2>2 DEF IsUnsent, Issues, Answering, Busy
  <2>3. CASE u # t
    <3>1. Issues(u)' => Core(u) /\ req'[u].answered = req[u].answered
      BY <1>1, <2>3 DEF Same, Issues, Busy
    <3>2. ASSUME Issues(u), ~req[u].answered, req'[u].commit = "done" PROVE Holds(req[u].new)'
      <4>1. req[u].new \in Tokens /\ Holds(req[u].new) /\ req'[u].new = req[u].new
        BY <1>0, <1>1, <1>t, <2>3, <3>2 DEF IsUnsent, Same, Core, Issues
      <4>2. QED
        BY <1>5, <4>1 DEF Holds, IsLive
    <3>3. ASSUME Issues(u), NEW b \in Browsers PROVE cookie'[b] = cookie[b] \/ cookie'[b] # req[u].new
      <4>1. Issues(t) => req[t].new # req[u].new
        BY <2>3, <3>3 DEF NumbersAreFresh
      <4>2. req[u].new # None
        BY <1>t, <3>3
      <4>3. QED
        BY <1>3, <1>4, <4>1, <4>2
    <3>4. QED
      BY <1>0, <2>1, <3>1, <3>2, <3>3, UnsentStays
  <2>4. QED
    BY <2>2, <2>3
<1>8. ASSUME NEW u \in Tabs PROVE HasReplaced(u)'
  <2>1. CASE u = t
    <3>1. SUFFICES ASSUME Rotates(t)', req'[t].answered, NEW b \in Browsers
                   PROVE  cookie'[b] # req'[t].presented
      BY <2>1 DEF HasReplaced
    <3>2. /\ Issues(t) /\ req[t].commit = "todo" /\ req'[t].presented = req[t].presented
          /\ req[t].plan = "rotate"
      BY <1>1, <3>1 DEF Answering, Core, Rotates, Issues, Busy
    <3>3. cookie'[Browser[t]] # req[t].presented
      BY <1>1, <1>4, <1>u, <3>2
    <3>4. req[t].presented \in Tokens
      BY <1>1, <3>2, RequestTypes DEF PlansFit
    <3>5. b # Browser[t] => cookie[b] # req[t].presented
      BY <1>1, <1>t, <3>4 DEF OneHolder, Knows
    <3>6. QED
      BY <1>3, <3>2, <3>3, <3>5
  <2>2. CASE u # t
    <3>1. Rotates(u)' => Core(u) /\ req'[u].answered = req[u].answered
      BY <1>1, <2>2 DEF Same, Rotates, Busy
    <3>2. ASSUME Rotates(u), NEW b \in Browsers
          PROVE  cookie'[b] = cookie[b] \/ cookie'[b] # req[u].presented
      <4>1. req[u].presented # None /\ (Issues(t) => req[u].presented # req[t].new)
        BY <1>u, <3>2 DEF PlansFit, Rotates
      <4>2. QED
        BY <1>3, <1>4, <4>1
    <3>3. QED
      BY <1>0, <1>2, <3>1, <3>2, ReplacedStays
  <2>3. QED
    BY <2>1, <2>2
<1>9. QED
  BY <1>6, <1>7, <1>8 DEF CookieIsGood, Stands, IsUnsent, HasReplaced

LEMMA CookieIsGoodStays ==
    ASSUME TypeOK, PlansFit, NumbersAreFresh, OneHolder, CookieIsGood, Step
    PROVE  CookieIsGood'
<1>f. CookiesAreOld /\ \A u \in Tabs : IsOld(u)
  BY FreshParts
<1>t. /\ next \in Nat /\ Tokens \subseteq Nat \ {0} /\ None \notin Tokens
      /\ \A b \in Browsers : cookie[b] \in Tokens \cup {None}
  BY TokenTypes
<1>1. CASE Expire \/ UNCHANGED vars
  <2>1. /\ req' = req /\ cookie' = cookie /\ (token' = token \/ Expire)
    BY <1>1 DEF Expire, vars
  <2>2. \A u \in Tabs : Same(u)
    BY <2>1 DEF Same, Core, Busy
  <2>3. QED
    BY <2>1, <2>2, GoodQuiet
<1>2. ASSUME NEW t \in Tabs, Sent(t) PROVE CookieIsGood'
  <2>1. /\ \A u \in Tabs \ {t} : Same(u)
        /\ ~Busy(t) /\ req'[t] # None /\ req'[t].answered = FALSE /\ req'[t].plan = "unread"
        /\ Browser[t] \in Browsers /\ req'[t].presented = cookie[Browser[t]]
        /\ cookie' = cookie /\ token' = token
    BY <1>2, SendFrame
  <2>2. Begins(t)
    BY <2>1 DEF Begins, IsUnsent, Issues
  <2>3. QED
    BY <2>1, <2>2, GoodQuiet
<1>3. ASSUME NEW t \in Tabs, NEW plan \in Plans, NEW family \in Families \cup {None},
             NEW new \in Tokens \cup {None}, NEW rehash \in BOOLEAN,
             Read(t, plan, family, new, rehash)
      PROVE  CookieIsGood'
  <2>1. Decided(t, plan, family, new)
    BY <1>3, ReadFrame
  <2>2. /\ \A u \in Tabs \ {t} : Same(u)
        /\ Busy(t) /\ req'[t] # None /\ req'[t].answered = FALSE /\ req'[t].plan = plan
        /\ req'[t].presented = req[t].presented /\ req'[t].new = new
        /\ req'[t].commit = (IF plan = "nothing" THEN "done" ELSE "todo")
        /\ cookie' = cookie /\ token' = token
    BY <2>1 DEF Decided
  <2>3. ~Issues(t)
    BY <1>3 DEF Read, Issues
  <2>4. ASSUME Issues(t)' PROVE new = next /\ next \in Tokens /\ req'[t].commit = "todo"
    BY <1>3, <2>2, <2>4 DEF Issues, Read
  <2>5. next \in Tokens => \A b \in Browsers : cookie[b] # next
    <3>1. ~(next < next)
      BY <1>t
    <3>2. QED
      BY <1>f, <1>t, <3>1 DEF CookiesAreOld
  <2>6. ASSUME next \in Tokens, NEW v \in Tabs, Busy(v)' PROVE req'[v].presented # next
    <3>1. Busy(v) /\ req'[v].presented = req[v].presented
      BY <2>2, <2>6 DEF Same, Core, Busy
    <3>2. ~(next < next)
      BY <1>t
    <3>3. QED
      BY <1>f, <1>t, <2>6, <3>1, <3>2 DEF IsOld
  <2>7. IsUnsent(t)'
    BY <2>2, <2>4, <2>5, <2>6 DEF IsUnsent
  <2>8. Begins(t)
    BY <2>2, <2>3, <2>7 DEF Begins
  <2>9. QED
    BY <2>2, <2>8, GoodQuiet
<1>4. QED
  BY <1>1, <1>2, <1>3, GoodCommit, GoodFails, GoodAnswer, GoodLost DEF Step

-----------------------------------------------------------------------------
(***************************************************************************)
(* The theorems.                                                           *)
(***************************************************************************)
LEMMA InitHolds == Init => IInv /\ EndedStaysEnded
<1> SUFFICES ASSUME Init PROVE IInv /\ EndedStaysEnded
  OBVIOUS
<1>1. /\ token = [k \in Tokens |-> None] /\ hash = 0 /\ outdated \in BOOLEAN
      /\ req = [t \in Tabs |-> None] /\ next = 1
      /\ cookie = [b \in Browsers |-> None]
      /\ passwords = 0 /\ ended = {} /\ late = {} /\ disturbed = {} /\ undone = FALSE
      /\ left \in [Events -> Nat]
  BY BudgetAssumption DEF Init
<1>2. /\ \A t \in Tabs : ~Busy(t) /\ ~Issues(t) /\ ~Rotates(t)
      /\ \A k \in Tokens : ~IsLive(k) /\ token[k] = None
      /\ \A b \in Browsers : cookie[b] = None
  BY <1>1 DEF Busy, Issues, Rotates, IsLive
<1>3. TypeOK
  BY <1>1 DEF TypeOK
<1>4. PlansFit
  BY <1>2 DEF PlansFit
<1>5. NumbersAreFresh
  BY <1>1, <1>2 DEF NumbersAreFresh
<1>6. OneHolder
  BY <1>2, NoneAssumption, TokensAssumption DEF OneHolder, Knows
<1>7. RotatesTheLiveOne
  BY <1>2 DEF RotatesTheLiveOne, Presents
<1>8. LateIsKnown
  BY <1>1, <1>2 DEF LateIsKnown
<1>9. CookieIsGood
  BY <1>2 DEF CookieIsGood
<1>10. OneLive
  BY <1>2 DEF OneLive, Live
<1>11. EndedStaysEnded
  BY <1>2 DEF EndedStaysEnded
<1>12. QED
  BY <1>3, <1>4, <1>5, <1>6, <1>7, <1>8, <1>9, <1>10, <1>11 DEF IInv

\* What a step preserves.
LEMMA StepHolds == IInv /\ EndedStaysEnded /\ [Next]_vars => IInv' /\ EndedStaysEnded'
<1> SUFFICES ASSUME IInv, EndedStaysEnded, [Next]_vars PROVE IInv' /\ EndedStaysEnded'
  OBVIOUS
<1>1. /\ TypeOK /\ PlansFit /\ NumbersAreFresh /\ OneHolder /\ RotatesTheLiveOne
      /\ LateIsKnown /\ CookieIsGood /\ OneLive
  BY DEF IInv
<1>2. Step
  BY <1>1, Steps
<1>3. /\ TypeOK' /\ PlansFit' /\ NumbersAreFresh' /\ OneHolder'
  BY <1>1, <1>2, Growing, PlansStayFit, NumbersStayFresh, OneHolderStays
<1>4. RotatesTheLiveOne' /\ OneLive'
  BY <1>1, <1>2, RotatesTheLiveOneStays, OneLiveStays
<1>5. LateIsKnown' /\ EndedStaysEnded'
  BY <1>1, <1>2, LateIsKnownStays, EndedStays
<1>6. CookieIsGood'
  BY <1>1, <1>2, CookieIsGoodStays
<1>7. QED
  BY <1>3, <1>4, <1>5, <1>6 DEF IInv

\* The inductive invariant of the sign-in sessions: in particular, of a session that no two
\* requests with one cookie, lost answer or failed transaction disturbed at most one token
\* is live, whatever the tabs of any number of browsers do at once.
THEOREM Invariance == Spec => []IInv
<1>1. Spec => [](IInv /\ EndedStaysEnded)
  BY InitHolds, StepHolds, PTL DEF Spec
<1>2. QED
  BY <1>1, PTL

\* What a logout, a revocation, a password change or a detected reuse has ended stays ended,
\* and no session of an older password remains, save what was under way as it happened.
THEOREM NoRevival == Spec => []EndedStaysEnded
<1>1. Spec => [](IInv /\ EndedStaysEnded)
  BY InitHolds, StepHolds, PTL DEF Spec
<1>2. QED
  BY <1>1, PTL

\* A browser that is left alone keeps a session it can go on with: the token in its cookie
\* is live, unless it expired, its session was ended, or the session was disturbed.
THEOREM SessionIsKept == Spec => []SessionLasts
<1>1. IInv => SessionLasts
  <2> SUFFICES ASSUME IInv, NEW b \in Browsers, cookie[b] # None,
                      \A t \in Tabs : Browser[t] = b => ~Busy(t)
               PROVE  LET k == cookie[b]
                          f == IF token[k] = None THEN k ELSE token[k].family
                      IN  \/ token[k] # None /\ (IsLive(k) \/ token[k].expired)
                          \/ f \in ended \cup disturbed
    BY DEF SessionLasts
  <2>1. Stands(b)
    BY CookieParts DEF IInv
  <2>2. Holds(cookie[b]) \/ (cookie[b] \in disturbed /\ token[cookie[b]] = None)
    BY <2>1 DEF Stands, Awaited, Issues, Rotates
  <2>3. QED
    BY <2>2 DEF Holds
<1>2. QED
  BY <1>1, Invariance, PTL

=============================================================================
