------------------------------ MODULE Sessions ------------------------------
(***************************************************************************)
(* Who gets past authentication: accounts, the tokens that the backend     *)
(* issues on registration and login and those that NextAuth issues, the    *)
(* blacklist of tokens that were logged out, and the counts of failed      *)
(* logins by e-mail and of all attempts by IP address.  Blacklist and      *)
(* counts are in the memory of the process and go when it restarts.        *)
(***************************************************************************)
EXTENDS Handlers, Naturals, FiniteSets

CONSTANTS
  Users,           \* by e-mail
  MaxTries,        \* failed logins before an e-mail must wait: 5
  LockAt,          \* failed logins that lock an e-mail: 10
  MaxByIP          \* attempts before an address must wait: 20

ASSUME SessionAssumption ==
  /\ Users # {}
  /\ MaxTries \in Nat \ {0} /\ LockAt \in Nat \ {0} /\ MaxByIP \in Nat \ {0}

(* Bound: a user gets one token of each issuer.                            *)
Tokens   == Users \X {"backend", "nextauth"}
Owner(t) == t[1]
ByBackend(t) == t[2] = "backend"

VARIABLES
  accounts,     \* User rows; the pass of a user is known if he registered
  token,        \* "none", "good" or "expired"
  blacklist,    \* tokens in the map
  tries,        \* failed logins of an e-mail: how many, whether the last is
                \* recent, and if they lock it, or did
  byIP,         \* attempts of the last 10 minutes
  session,      \* the user of a handler
  (* history *)
  loggedOut,    \* tokens whose logout was answered with success since the
                \* process started
  fails,        \* recent failures of an e-mail since a success or a restart
  crowded,      \* e-mails with a login that passed the check while another's
                \* password was being compared, since the process started
  reused,       \* tokens that a request passed with after their logout
  rushed        \* e-mails with a login let through after MaxTries failures

history == <<loggedOut, fails, crowded, reused, rushed>>
gates   == <<accounts, token, blacklist, tries, byIP, history>>

NoTries   == [count |-> 0, recent |-> FALSE, lock |-> "none"]

InitSessions ==
  /\ accounts \in SUBSET Users
  /\ \E T \in SUBSET {t \in Tokens : ~ByBackend(t)} :
       token = [t \in Tokens |-> IF t \in T THEN "good" ELSE "none"]
  /\ blacklist = {} /\ loggedOut = {} /\ crowded = {} /\ reused = {} /\ rushed = {}
  /\ tries = [u \in Users |-> NoTries]
  /\ fails = [u \in Users |-> 0]
  /\ byIP = 0
  /\ session = [r \in Requests |-> CHOOSE u \in Users : TRUE]

Attempt == byIP' = IF byIP < MaxByIP THEN byIP + 1 ELSE byIP
OpenToIP == byIP < MaxByIP

-----------------------------------------------------------------------------
(* authenticateToken.  Nothing locks an account, for shouldLockAccount is  *)
(* never called, and the routes that need no more than this are answered.  *)

Authenticate(r) ==
  /\ pc[r] = "idle"
  /\ OpenToIP
  /\ \E t \in Tokens :
       /\ t \notin blacklist /\ token[t] = "good"
       /\ session' = [session EXCEPT ![r] = Owner(t)]
       /\ reused' = reused \cup ({t} \cap loggedOut)
  /\ Goto(r, "sync")
  /\ UNCHANGED <<accounts, token, blacklist, tries, byIP, loggedOut, fails, crowded, rushed>>

(* A token of NextAuth that expired counts as an attempt.                  *)
Refuse(r) ==
  /\ pc[r] = "idle"
  /\ OpenToIP
  /\ \E t \in Tokens : ~ByBackend(t) /\ token[t] = "expired"
  /\ Attempt
  /\ Answer(r)
  /\ UNCHANGED <<session, accounts, token, blacklist, tries, history>>

(* The user is found or made.  Of two that are made at once one fails, as  *)
(* the e-mail is unique.                                                   *)
FindUser(r) ==
  /\ pc[r] = "sync"
  /\ IF session[r] \in accounts
     THEN Goto(r, "route") /\ Attempt
     ELSE Goto(r, "make user") /\ UNCHANGED byIP
  /\ UNCHANGED <<session, accounts, token, blacklist, tries, history>>

MakeUser(r) ==
  /\ pc[r] = "make user"
  /\ IF session[r] \in accounts
     THEN Answer(r) /\ UNCHANGED <<accounts, byIP>>
     ELSE /\ accounts' = accounts \cup {session[r]}
          /\ Goto(r, "route")
          /\ Attempt
  /\ UNCHANGED <<session, token, blacklist, tries, history>>

(* GET /auth/session reads NextAuth's token from its cookie, and asks      *)
(* neither the blacklist nor the counts.                                   *)
CookieSession(r) ==
  /\ pc[r] = "idle"
  /\ \E t \in Tokens :
       /\ ~ByBackend(t) /\ token[t] = "good"
       /\ session' = [session EXCEPT ![r] = Owner(t)]
       /\ reused' = reused \cup ({t} \cap loggedOut)
       /\ IF Owner(t) \in accounts THEN Answer(r) ELSE Goto(r, "make session user")
  /\ UNCHANGED <<accounts, token, blacklist, tries, byIP, loggedOut, fails, crowded, rushed>>

MakeSessionUser(r) ==
  /\ pc[r] = "make session user"
  /\ accounts' = accounts \cup {session[r]}
  /\ Answer(r)
  /\ UNCHANGED <<session, token, blacklist, tries, byIP, history>>

-----------------------------------------------------------------------------
(* Registration and login                                                  *)

Issue(u) == token' = [token EXCEPT ![<<u, "backend">>] = IF @ = "none" THEN "good" ELSE @]

RegisterCheck(r) ==
  /\ pc[r] = "idle"
  /\ \E u \in Users \ accounts :
       session' = [session EXCEPT ![r] = u]
  /\ Goto(r, "hash")
  /\ UNCHANGED gates

Register(r) ==
  LET u == session[r]
  IN /\ pc[r] = "hash"
     /\ IF u \in accounts THEN UNCHANGED <<accounts, token>>
        ELSE accounts' = accounts \cup {u} /\ Issue(u)
     /\ Answer(r)
     /\ UNCHANGED <<session, blacklist, tries, byIP, history>>

(* checkLoginRateLimit; a lock that is over goes when it is looked at.     *)
Allowed(u) == \/ tries[u].lock = "over"
              \/ tries[u].lock = "none" /\ ~(tries[u].count >= MaxTries /\ tries[u].recent)

Comparing(r, u) == pc[r] = "compare" /\ session[r] = u

LoginCheck(r) ==
  /\ pc[r] = "idle"
  /\ OpenToIP
  /\ \E u \in Users :
       /\ Allowed(u)
       /\ tries' = [tries EXCEPT ![u] = IF @.lock = "over" THEN NoTries ELSE @]
       /\ session' = [session EXCEPT ![r] = u]
       /\ crowded' = IF \E q \in Requests : Comparing(q, u) THEN crowded \cup {u} ELSE crowded
       /\ rushed' = IF fails[u] >= MaxTries THEN rushed \cup {u} ELSE rushed
  /\ Goto(r, "compare")
  /\ UNCHANGED <<accounts, token, blacklist, byIP, loggedOut, fails, reused>>

(* The user is not there, has no password, or gave a wrong one.            *)
LoginFails(r) ==
  LET u == session[r]
      n == tries[u].count + 1
  IN /\ pc[r] = "compare"
     /\ tries' = [tries EXCEPT ![u] =
          [count |-> n, recent |-> TRUE, lock |-> IF n >= LockAt THEN "held" ELSE @.lock]]
     /\ fails' = [fails EXCEPT ![u] = @ + 1]
     /\ Attempt
     /\ Answer(r)
     /\ UNCHANGED <<session, accounts, token, blacklist, loggedOut, crowded, reused, rushed>>

LoginSucceeds(r) ==
  LET u == session[r]
  IN /\ pc[r] = "compare"
     /\ u \in accounts
     /\ tries' = [tries EXCEPT ![u] = NoTries]
     /\ fails' = [fails EXCEPT ![u] = 0]
     /\ Issue(u)
     /\ Attempt
     /\ Answer(r)
     /\ UNCHANGED <<session, accounts, blacklist, loggedOut, crowded, reused, rushed>>

(* POST /auth/logout verifies with the secret of the backend alone.  A     *)
(* token that it cannot verify, be it one of NextAuth, is answered with    *)
(* success as if it had expired.  Revoking all sessions of a user only     *)
(* renames entries that are in the blacklist already.                      *)
LogoutOf(r, verified) ==
  /\ pc[r] = "idle"
  /\ \E t \in Tokens :
       /\ blacklist' = blacklist \cup ({t} \cap verified)
       /\ loggedOut' = IF token[t] = "good" THEN loggedOut \cup {t} ELSE loggedOut
  /\ Answer(r)
  /\ UNCHANGED <<session, accounts, token, tries, byIP, fails, crowded, reused, rushed>>

(* Mutant: tokens of NextAuth are logged out like the others.              *)
LogoutAny(r) == LogoutOf(r, {t \in Tokens : token[t] = "good"})

Logout(r) == LogoutOf(r, {t \in Tokens : ByBackend(t) /\ token[t] = "good"})

-----------------------------------------------------------------------------
(* Time and the process                                                    *)

(* A token expires no later than its entry in the blacklist.               *)
TokenExpires(t) ==
  /\ token[t] = "good"
  /\ token' = [token EXCEPT ![t] = "expired"]
  /\ UNCHANGED <<pc, session, accounts, blacklist, tries, byIP, history>>

(* Mutant: the timer drops every entry.                                    *)
CleanupAll ==
  /\ blacklist # {}
  /\ blacklist' = {}
  /\ UNCHANGED <<pc, session, accounts, token, tries, byIP, history>>

(* The timer, or the next lookup, drops the entries that expired.          *)
Cleanup ==
  /\ \E t \in blacklist : token[t] = "expired"
  /\ blacklist' = {t \in blacklist : token[t] # "expired"}
  /\ UNCHANGED <<pc, session, accounts, token, tries, byIP, history>>

(* 15 minutes without a failure, 30 for the lock, an hour for the entry.   *)
TriesAge(u) ==
  /\ tries[u] # NoTries
  /\ tries' = [tries EXCEPT ![u] =
       IF @.recent THEN [@ EXCEPT !.recent = FALSE]
       ELSE IF @.lock = "held" THEN [@ EXCEPT !.lock = "over"] ELSE NoTries]
  /\ fails' = [fails EXCEPT ![u] = 0]
  /\ UNCHANGED <<pc, session, accounts, token, blacklist, byIP, loggedOut, crowded, reused, rushed>>

AttemptsAge ==
  /\ byIP > 0
  /\ byIP' = 0
  /\ UNCHANGED <<pc, session, accounts, token, blacklist, tries, history>>

(* Handlers end with the process, and all that it had in memory.           *)
Restart ==
  /\ pc' = [r \in Requests |-> IF Running(r) THEN "done" ELSE pc[r]]
  /\ blacklist' = {} /\ loggedOut' = {} /\ crowded' = {}
  /\ tries' = [u \in Users |-> NoTries]
  /\ fails' = [u \in Users |-> 0]
  /\ byIP' = 0
  /\ UNCHANGED <<session, accounts, token, reused, rushed>>

SessionStep(r) ==
  \/ Authenticate(r) \/ Refuse(r) \/ FindUser(r) \/ MakeUser(r)
  \/ CookieSession(r) \/ MakeSessionUser(r) \/ RegisterCheck(r) \/ Register(r)
  \/ LoginCheck(r) \/ LoginFails(r) \/ LoginSucceeds(r) \/ Logout(r)

Clock ==
  \/ \E t \in Tokens : TokenExpires(t)
  \/ \E u \in Users : TriesAge(u)
  \/ Cleanup \/ AttemptsAge

-----------------------------------------------------------------------------
SessionTypeOK ==
  /\ accounts \subseteq Users
  /\ token \in [Tokens -> {"none", "good", "expired"}]
  /\ blacklist \subseteq {t \in Tokens : ByBackend(t)}
  /\ tries \in [Users -> [count : Nat, recent : BOOLEAN, lock : {"none", "held", "over"}]]
  /\ byIP \in 0..MaxByIP
  /\ session \in [Requests -> Users]

(* Until the process restarts, a request that passes authentication with   *)
(* a token after its logout was answered with success carries one of       *)
(* NextAuth, which logout cannot verify; no other token comes back, though *)
(* the blacklist forgets.  No login that comes after MaxTries recent       *)
(* failures of its e-mail reaches the password, and there are no more than *)
(* MaxTries failures, unless logins passed the check together.             *)
AdmissionsNeedCause ==
  /\ \A t \in reused : ~ByBackend(t)
  /\ rushed = {}
  /\ \A u \in Users \ crowded : fails[u] <= MaxTries
=============================================================================
