-------------------------- MODULE ChatServiceProofs --------------------------
(***************************************************************************)
(* Proofs about module ChatService: its types, the gates that requests     *)
(* pass and the messages they leave, for any number of requests and users. *)
(***************************************************************************)
EXTENDS ChatService, TLAPS

-----------------------------------------------------------------------------
(* The inductive invariant                                                 *)

(* Where authentication leaves a handler, and where the chat does.         *)
AtSession == {"idle", "sync", "make user", "make session user", "hash", "compare"}
AtChat    == {"route", "hset", "expire", "zadd", "read reactions",
              "write reactions", "sadd", "beat", "srem", "unbeat", "type"}

PlaceInv == pc \in [Requests -> AtSession \cup AtChat \cup {"done"}]

(* A token of the backend that was logged out and has not expired is in    *)
(* the blacklist.                                                          *)
LogoutInv ==
  /\ loggedOut \subseteq Tokens
  /\ \A t \in loggedOut : /\ token[t] # "none"
                          /\ ByBackend(t) /\ token[t] = "good" => t \in blacklist

(* An e-mail's recent failures are all in its count, and its lock is not   *)
(* over while there are any.                                               *)
TriesInv ==
  /\ fails \in [Users -> Nat]
  /\ \A u \in Users :
       /\ fails[u] <= tries[u].count
       /\ fails[u] > 0 => tries[u].recent /\ tries[u].lock # "over"
       /\ tries[u].lock # "none" => tries[u].count >= LockAt

(* Of an e-mail whose logins never overlapped, one password at most is     *)
(* being compared, and that one passed the check rightly.                  *)
LoneInv ==
  \A u \in Users \ crowded :
    /\ fails[u] <= MaxTries
    /\ \A r \in Requests : Comparing(r, u) =>
         fails[u] < MaxTries /\ \A q \in Requests : Comparing(q, u) => q = r

PassInv == (\A t \in reused : ~ByBackend(t)) /\ rushed = {}

GateInv == PlaceInv /\ SessionTypeOK /\ LogoutInv /\ TriesInv /\ LoneInv /\ PassInv

-----------------------------------------------------------------------------
LEMMA GateInit == Init => GateInv
  <1> SUFFICES ASSUME Init PROVE GateInv
    OBVIOUS
  <1>1. PlaceInv
    BY DEF Init, PlaceInv, AtSession
  <1>2. SessionTypeOK
    <2>1. (CHOOSE u \in Users : TRUE) \in Users
      BY SessionAssumption
    <2>2. NoTries \in [count : Nat, recent : BOOLEAN, lock : {"none", "held", "over"}]
      BY DEF NoTries
    <2> QED
      BY <2>1, <2>2, SessionAssumption DEF Init, InitSessions, SessionTypeOK
  <1>3. LogoutInv /\ TriesInv /\ LoneInv /\ PassInv
    BY SessionAssumption DEF Init, InitSessions, LogoutInv, TriesInv, LoneInv, PassInv,
       Comparing, NoTries
  <1> QED
    BY <1>1, <1>2, <1>3 DEF GateInv

(* Handlers only move between the places listed.                           *)
LEMMA PlaceNext == PlaceInv /\ [Next]_vars => PlaceInv'
  <1> SUFFICES ASSUME PlaceInv, [Next]_vars PROVE PlaceInv'
    OBVIOUS
  <1> USE DEF PlaceInv, AtSession, AtChat, Goto, Answer
  <1>1. CASE UNCHANGED vars
    BY <1>1 DEF vars
  <1>2. ASSUME NEW r \in Requests, SessionStep(r) PROVE PlaceInv'
    BY <1>2 DEF SessionStep, Authenticate, Refuse, FindUser, MakeUser, CookieSession,
       MakeSessionUser, RegisterCheck, Register, LoginCheck, LoginFails, LoginSucceeds,
       Logout, LogoutOf
  <1>3. ASSUME NEW r \in Requests, ChatStep(r) PROVE PlaceInv'
    BY <1>3 DEF ChatStep, Enter, StoreHash, StoreExpire, StoreIndex, ReadReactions,
       WriteReactions, WriteSet, Join, Beat, Leave, Unbeat, Type
  <1>4. ASSUME NEW r \in Requests, Answer(r) PROVE PlaceInv'
    BY <1>4
  <1>5. CASE Clock
    BY <1>5 DEF Clock, TokenExpires, TriesAge, Cleanup, AttemptsAge
  <1>6. CASE KeyExpires
    BY <1>6 DEF KeyExpires
  <1>7. CASE Restart
    BY <1>7 DEF Restart
  <1> QED
    BY <1>1, <1>2, <1>3, <1>4, <1>5, <1>6, <1>7 DEF Next

(* Attempts are counted up to the limit.                                   *)
LEMMA AttemptCounts == SessionTypeOK /\ Attempt => byIP' \in 0..MaxByIP
  BY SessionAssumption DEF SessionTypeOK, Attempt

LEMMA IssueGives ==
  ASSUME SessionTypeOK, NEW u \in Users, Issue(u)
  PROVE  /\ token' \in [Tokens -> {"none", "good", "expired"}]
         /\ \A t \in Tokens : token[t] # "none" => token'[t] = token[t]
  BY DEF SessionTypeOK, Issue, Tokens

(* Every step keeps the types of accounts, tokens and counts.              *)
LEMMA SessionTypesNext == SessionTypeOK /\ [Next]_vars => SessionTypeOK'
  <1> SUFFICES ASSUME SessionTypeOK, [Next]_vars PROVE SessionTypeOK'
    OBVIOUS
  <1>1. CASE UNCHANGED <<session, gates>>
    BY <1>1 DEF gates, history, SessionTypeOK
  <1>2. ASSUME NEW r \in Requests,
               \/ Authenticate(r) \/ Refuse(r) \/ FindUser(r) \/ MakeUser(r)
               \/ CookieSession(r) \/ MakeSessionUser(r) \/ RegisterCheck(r)
        PROVE SessionTypeOK'
    BY <1>2, AttemptCounts
       DEF SessionTypeOK, Authenticate, Refuse, FindUser, MakeUser, CookieSession,
           MakeSessionUser, RegisterCheck, Owner, Tokens, gates, history
  <1>3. ASSUME NEW r \in Requests, Register(r) PROVE SessionTypeOK'
    BY <1>3, IssueGives DEF SessionTypeOK, Register
  <1>4. ASSUME NEW r \in Requests, LoginCheck(r) PROVE SessionTypeOK'
    BY <1>4 DEF SessionTypeOK, LoginCheck, NoTries
  <1>5. ASSUME NEW r \in Requests, LoginFails(r) PROVE SessionTypeOK'
    <2>1. /\ session[r] \in Users
          /\ tries[session[r]] \in [count : Nat, recent : BOOLEAN,
                                    lock : {"none", "held", "over"}]
      BY DEF SessionTypeOK
    <2>2. tries' \in [Users -> [count : Nat, recent : BOOLEAN,
                                lock : {"none", "held", "over"}]]
      BY <1>5, <2>1 DEF SessionTypeOK, LoginFails
    <2> QED
      BY <1>5, <2>2, AttemptCounts DEF SessionTypeOK, LoginFails
  <1>6. ASSUME NEW r \in Requests, LoginSucceeds(r) PROVE SessionTypeOK'
    <2>1. session[r] \in Users
      BY DEF SessionTypeOK
    <2> QED
      BY <1>6, <2>1, AttemptCounts, IssueGives DEF SessionTypeOK, LoginSucceeds, NoTries
  <1>7. ASSUME NEW r \in Requests, Logout(r) PROVE SessionTypeOK'
    BY <1>7 DEF SessionTypeOK, Logout, LogoutOf
  <1>8. CASE Clock
    <2>1. ASSUME NEW u \in Users, TriesAge(u) PROVE SessionTypeOK'
      BY <2>1 DEF SessionTypeOK, TriesAge, NoTries
    <2>2. CASE AttemptsAge
      BY <2>2, SessionAssumption DEF SessionTypeOK, AttemptsAge
    <2> QED
      BY <1>8, <2>1, <2>2 DEF SessionTypeOK, Clock, TokenExpires, Cleanup
  <1>9. CASE Restart
    BY <1>9, SessionAssumption DEF SessionTypeOK, Restart, NoTries
  <1> QED
    BY <1>1, <1>2, <1>3, <1>4, <1>5, <1>6, <1>7, <1>8, <1>9
       DEF Next, vars, SessionStep, ChatStep, Enter, StoreHash, StoreExpire, StoreIndex,
           ReadReactions, WriteReactions, WriteSet, Join, Beat, Leave, Unbeat, Type,
           KeyExpires, gates, history

(* Tokens that were logged out stay so until they expire.                  *)
LEMMA LogoutNext ==
  SessionTypeOK /\ LogoutInv /\ [Next]_vars => LogoutInv'
  <1> SUFFICES ASSUME SessionTypeOK, LogoutInv, [Next]_vars PROVE LogoutInv'
    OBVIOUS
  <1>1. CASE UNCHANGED <<token, blacklist, loggedOut>>
    BY <1>1 DEF LogoutInv
  <1>2. ASSUME NEW u \in Users, Issue(u), UNCHANGED <<blacklist, loggedOut>>
        PROVE  LogoutInv'
    BY <1>2, IssueGives DEF LogoutInv
  <1>3. ASSUME NEW r \in Requests, Logout(r) PROVE LogoutInv'
    BY <1>3 DEF LogoutInv, Logout, LogoutOf, SessionTypeOK
  <1>4. ASSUME NEW t \in Tokens, TokenExpires(t) PROVE LogoutInv'
    BY <1>4 DEF LogoutInv, TokenExpires, SessionTypeOK, history
  <1>5. CASE Cleanup
    BY <1>5 DEF LogoutInv, Cleanup, history
  <1>6. CASE Restart
    BY <1>6 DEF LogoutInv, Restart
  <1>7. ASSUME NEW r \in Requests, Register(r) \/ LoginSucceeds(r) PROVE LogoutInv'
    <2>1. session[r] \in Users
      BY DEF SessionTypeOK
    <2> QED
      BY <1>1, <1>2, <1>7, <2>1 DEF Register, LoginSucceeds, history
  <1> QED
    BY <1>1, <1>3, <1>4, <1>5, <1>6, <1>7
       DEF Next, vars, gates, history, SessionStep, Authenticate, Refuse, FindUser, MakeUser,
           CookieSession, MakeSessionUser, RegisterCheck, LoginCheck, LoginFails, Clock,
           TriesAge, AttemptsAge, ChatStep, Enter, StoreHash, StoreExpire, StoreIndex,
           ReadReactions, WriteReactions, WriteSet, Join, Beat, Leave, Unbeat, Type,
           KeyExpires

(* Failures are counted, whatever logins overlap and however time goes by. *)
LEMMA TriesNext ==
  SessionTypeOK /\ TriesInv /\ [Next]_vars => TriesInv'
  <1> SUFFICES ASSUME SessionTypeOK, TriesInv, [Next]_vars PROVE TriesInv'
    OBVIOUS
  <1> USE SessionAssumption
  <1>1. CASE UNCHANGED <<tries, fails>>
    BY <1>1 DEF TriesInv
  <1>2. ASSUME NEW r \in Requests, LoginCheck(r) PROVE TriesInv'
    BY <1>2 DEF TriesInv, LoginCheck, NoTries, SessionTypeOK
  <1>3. ASSUME NEW r \in Requests, LoginFails(r) PROVE TriesInv'
    <2> DEFINE u == session[r]
    <2>1. /\ u \in Users
          /\ tries[u].count \in Nat /\ tries[u].lock \in {"none", "held", "over"}
      BY DEF SessionTypeOK
    <2>2. /\ fails' = [fails EXCEPT ![u] = fails[u] + 1]
          /\ tries' = [tries EXCEPT ![u] =
               [count |-> tries[u].count + 1, recent |-> TRUE,
                lock |-> IF tries[u].count + 1 >= LockAt THEN "held" ELSE tries[u].lock]]
      BY <1>3 DEF LoginFails
    <2>3. /\ fails[u] <= tries[u].count
          /\ tries[u].lock # "none" => tries[u].count >= LockAt
      BY <2>1 DEF TriesInv
    <2>4. fails' \in [Users -> Nat]
      BY <2>1, <2>2 DEF TriesInv
    <2>5. ASSUME NEW v \in Users
          PROVE  /\ fails'[v] <= tries'[v].count
                 /\ fails'[v] > 0 => tries'[v].recent /\ tries'[v].lock # "over"
                 /\ tries'[v].lock # "none" => tries'[v].count >= LockAt
      <3>1. CASE v # u
        BY <2>1, <2>2, <3>1 DEF TriesInv, SessionTypeOK
      <3>2. CASE v = u
        <4>1. /\ fails'[v] = fails[u] + 1
              /\ tries'[v].count = tries[u].count + 1
              /\ tries'[v].recent
              /\ tries'[v].lock = IF tries[u].count + 1 >= LockAt THEN "held"
                                  ELSE tries[u].lock
          BY <2>1, <2>2, <3>2 DEF TriesInv, SessionTypeOK
        <4> QED
          BY <2>1, <2>3, <4>1 DEF TriesInv
      <3> QED
        BY <3>1, <3>2
    <2> QED
      BY <2>4, <2>5 DEF TriesInv
  <1>4. ASSUME NEW r \in Requests, LoginSucceeds(r) PROVE TriesInv'
    <2>1. session[r] \in Users
      BY DEF SessionTypeOK
    <2> QED
      BY <1>4, <2>1 DEF TriesInv, LoginSucceeds, NoTries, SessionTypeOK
  <1>5. ASSUME NEW u \in Users, TriesAge(u) PROVE TriesInv'
    BY <1>5 DEF TriesInv, TriesAge, NoTries, SessionTypeOK
  <1>6. CASE Restart
    BY <1>6 DEF TriesInv, Restart, NoTries
  <1> QED
    BY <1>1, <1>2, <1>3, <1>4, <1>5, <1>6
       DEF Next, vars, gates, history, SessionStep, Authenticate, Refuse, FindUser, MakeUser,
           CookieSession, MakeSessionUser, RegisterCheck, Register, Logout, LogoutOf, Clock,
           TokenExpires, Cleanup, AttemptsAge, ChatStep, Enter, StoreHash, StoreExpire,
           StoreIndex, ReadReactions, WriteReactions, WriteSet, Join, Beat, Leave, Unbeat,
           Type, KeyExpires

(* A login comes through the check when it may.                            *)
LEMMA AllowedMeans ==
  ASSUME SessionTypeOK, TriesInv, NEW u \in Users, Allowed(u)
  PROVE  fails[u] < MaxTries
  <1>1. /\ fails[u] \in Nat /\ tries[u].count \in Nat /\ MaxTries \in Nat \ {0}
        /\ fails[u] <= tries[u].count
        /\ fails[u] > 0 => tries[u].recent /\ tries[u].lock # "over"
    BY SessionAssumption DEF TriesInv, SessionTypeOK
  <1> QED
    BY <1>1 DEF Allowed

(* As long as no password more is being compared, and the failures of an   *)
(* e-mail are as they were or forgotten, nothing changes.                  *)
LEMMA LoneStays ==
  ASSUME SessionTypeOK, TriesInv, LoneInv, crowded \subseteq crowded',
         \A r \in Requests, u \in Users : Comparing(r, u)' => Comparing(r, u),
         \A u \in Users : fails'[u] = fails[u] \/ fails'[u] = 0
  PROVE  LoneInv'
  <1>1. 0 < MaxTries /\ 0 <= MaxTries
    BY SessionAssumption
  <1> QED
    BY <1>1 DEF LoneInv

(* The comparisons that are under way when a handler is at another place.  *)
LEMMA LonePlace ==
  ASSUME PlaceInv, SessionTypeOK, NEW r \in Requests, NEW place, place # "compare", Goto(r, place),
         \/ UNCHANGED session
         \/ \E u : session' = [session EXCEPT ![r] = u]
  PROVE  \A q \in Requests, u \in Users : Comparing(q, u)' => Comparing(q, u)
  <1>1. ASSUME NEW q \in Requests, NEW u \in Users, Comparing(q, u)'
        PROVE  Comparing(q, u)
    <2>1. pc'[q] = "compare" /\ session'[q] = u
      BY <1>1 DEF Comparing
    <2>2. q # r /\ pc'[q] = pc[q]
      BY <2>1 DEF PlaceInv, Goto
    <2>3. session'[q] = session[q]
      BY <2>2 DEF SessionTypeOK
    <2> QED
      BY <2>1, <2>2, <2>3 DEF Comparing
  <1> QED
    BY <1>1

(* Failures above the limit are of logins that overlapped.                 *)
LEMMA LoneNext == GateInv /\ [Next]_vars => LoneInv'
  <1> SUFFICES ASSUME GateInv, [Next]_vars PROVE LoneInv'
    OBVIOUS
  <1> USE DEF GateInv
  <1>1. CASE UNCHANGED <<session, fails, crowded>> /\ \A q \in Requests : pc'[q] = "compare" => pc[q] = "compare"
    BY <1>1, LoneStays DEF Comparing
  <1>2. ASSUME NEW r \in Requests, NEW place, place # "compare", Goto(r, place),
               UNCHANGED <<fails, crowded>>,
               UNCHANGED session \/ \E u : session' = [session EXCEPT ![r] = u]
        PROVE  LoneInv'
    BY <1>2, LonePlace, LoneStays
  <1>3. ASSUME NEW r \in Requests,
               \/ Authenticate(r) \/ Refuse(r) \/ FindUser(r) \/ MakeUser(r)
               \/ CookieSession(r) \/ MakeSessionUser(r) \/ RegisterCheck(r)
               \/ Register(r) \/ Logout(r)
        PROVE  LoneInv'
    BY <1>2, <1>3 DEF Authenticate, Refuse, FindUser, MakeUser, CookieSession,
       MakeSessionUser, RegisterCheck, Register, Logout, LogoutOf, Answer, gates, history
  <1>4. ASSUME NEW r \in Requests, LoginCheck(r) PROVE LoneInv'
    <2>1. PICK u \in Users :
            /\ Allowed(u)
            /\ session' = [session EXCEPT ![r] = u]
            /\ crowded' = IF \E q \in Requests : Comparing(q, u)
                         THEN crowded \cup {u} ELSE crowded
      BY <1>4 DEF LoginCheck
    <2>2. /\ pc' = [pc EXCEPT ![r] = "compare"] /\ pc[r] = "idle" /\ UNCHANGED fails
          /\ pc \in [Requests -> AtSession \cup AtChat \cup {"done"}]
          /\ session \in [Requests -> Users]
      BY <1>4 DEF LoginCheck, Goto, PlaceInv, SessionTypeOK
    <2>3. ASSUME NEW q \in Requests, NEW v \in Users, Comparing(q, v)'
          PROVE  (q = r /\ v = u) \/ (q # r /\ Comparing(q, v))
      BY <2>1, <2>2, <2>3 DEF Comparing
    <2>4. fails[u] < MaxTries /\ fails[u] \in Nat /\ MaxTries \in Nat
      BY <2>1, AllowedMeans, SessionAssumption DEF TriesInv
    <2>5. ASSUME NEW v \in Users \ crowded'
          PROVE  /\ fails'[v] <= MaxTries
                 /\ \A q \in Requests : Comparing(q, v)' =>
                      /\ fails'[v] < MaxTries
                      /\ \A x \in Requests : Comparing(x, v)' => x = q
      <3>1. v \notin crowded
        BY <2>1, <2>5
      <3>2. CASE v = u
        <4>1. \A q \in Requests : ~Comparing(q, u)
          BY <2>1, <2>5, <3>2
        <4> QED
          BY <2>2, <2>3, <2>4, <3>2, <4>1
      <3>3. CASE v # u
        BY <2>2, <2>3, <3>1, <3>3 DEF LoneInv
      <3> QED
        BY <3>2, <3>3
    <2> QED
      BY <2>5 DEF LoneInv
  <1>5. ASSUME NEW r \in Requests, LoginFails(r) PROVE LoneInv'
    <2>0. PICK u \in Users : u = session[r]
      BY DEF SessionTypeOK
    <2>1. /\ fails' = [fails EXCEPT ![u] = fails[u] + 1] /\ Goto(r, "done")
          /\ UNCHANGED <<session, crowded>> /\ pc[r] = "compare"
          /\ u \in Users /\ fails \in [Users -> Nat] /\ MaxTries \in Nat
      BY <1>5, <2>0, SessionAssumption DEF LoginFails, Answer, SessionTypeOK, TriesInv
    <2>2. \A q \in Requests, v \in Users : Comparing(q, v)' => Comparing(q, v)
      BY <2>1, LonePlace
    <2>3. ~Comparing(r, u)' /\ Comparing(r, u)
      BY <2>0, <2>1 DEF Comparing, Goto, PlaceInv
    <2>4. ASSUME NEW v \in Users \ crowded'
          PROVE  /\ fails'[v] <= MaxTries
                 /\ \A q \in Requests : Comparing(q, v)' =>
                      /\ fails'[v] < MaxTries
                      /\ \A x \in Requests : Comparing(x, v)' => x = q
      <3>1. CASE v = u
        <4>1. fails[u] < MaxTries /\ \A q \in Requests : Comparing(q, u) => q = r
          BY <2>1, <2>3, <2>4, <3>1 DEF LoneInv
        <4>2. \A q \in Requests : ~Comparing(q, u)'
          BY <2>1, <2>2, <2>3, <4>1
        <4>3. fails'[u] = fails[u] + 1 /\ fails[u] \in Nat
          BY <2>1
        <4>4. fails'[v] <= MaxTries
          BY <2>1, <3>1, <4>1, <4>3
        <4> QED
          BY <3>1, <4>2, <4>4
      <3>2. CASE v # u
        BY <2>1, <2>2, <2>4, <3>2 DEF LoneInv
      <3> QED
        BY <3>1, <3>2
    <2> QED
      BY <2>4 DEF LoneInv
  <1>6. ASSUME NEW r \in Requests, LoginSucceeds(r) PROVE LoneInv'
    <2>1. /\ fails' = [fails EXCEPT ![session[r]] = 0] /\ Goto(r, "done")
          /\ UNCHANGED <<session, crowded>> /\ fails \in [Users -> Nat]
      BY <1>6 DEF LoginSucceeds, Answer, TriesInv
    <2>2. \A q \in Requests, v \in Users : Comparing(q, v)' => Comparing(q, v)
      BY <2>1, LonePlace
    <2> QED
      BY <2>1, <2>2, LoneStays
  <1>7. ASSUME NEW u \in Users, TriesAge(u) PROVE LoneInv'
    <2>1. /\ \A v \in Users : fails'[v] = fails[v] \/ fails'[v] = 0
          /\ UNCHANGED <<pc, session, crowded>>
      BY <1>7 DEF TriesAge, TriesInv
    <2> QED
      BY <2>1, LoneStays DEF Comparing
  <1>8. CASE Restart
    <2>1. \A q \in Requests : pc'[q] # "compare"
      BY <1>8 DEF Restart, Running, At
    <2>2. 0 <= MaxTries
      BY SessionAssumption
    <2> QED
      BY <1>8, <2>1, <2>2 DEF Restart, LoneInv, Comparing
  <1>9. ASSUME NEW r \in Requests, ChatStep(r) \/ (Answer(r) /\ UNCHANGED <<session, gates>>)
        PROVE  LoneInv'
    <2>1. \A q \in Requests : pc'[q] = "compare" => pc[q] = "compare"
      BY <1>9 DEF ChatStep, Enter, StoreHash, StoreExpire, StoreIndex, ReadReactions,
         WriteReactions, WriteSet, Join, Beat, Leave, Unbeat, Type, Goto, Answer, PlaceInv
    <2>2. UNCHANGED <<session, fails, crowded>>
      BY <1>9 DEF ChatStep, Enter, StoreHash, StoreExpire, StoreIndex, ReadReactions,
         WriteReactions, WriteSet, Join, Beat, Leave, Unbeat, Type, gates, history
    <2> QED
      BY <1>1, <2>1, <2>2
  <1> QED
    BY <1>1, <1>3, <1>4, <1>5, <1>6, <1>7, <1>8, <1>9
       DEF Next, vars, gates, history, SessionStep, Clock, TokenExpires, Cleanup,
           AttemptsAge, KeyExpires

(* A request that passes a gate does so rightly.                           *)
LEMMA PassNext == GateInv /\ [Next]_vars => PassInv'
  <1> SUFFICES ASSUME GateInv, [Next]_vars PROVE PassInv'
    OBVIOUS
  <1> USE DEF GateInv, PassInv
  <1>1. CASE UNCHANGED <<reused, rushed>>
    BY <1>1
  <1>2. ASSUME NEW r \in Requests, Authenticate(r) PROVE PassInv'
    BY <1>2 DEF Authenticate, LogoutInv
  <1>3. ASSUME NEW r \in Requests, CookieSession(r) PROVE PassInv'
    BY <1>3 DEF CookieSession
  <1>4. ASSUME NEW r \in Requests, LoginCheck(r) PROVE PassInv'
    <2>1. PICK u \in Users : /\ Allowed(u)
                             /\ rushed' = IF fails[u] >= MaxTries THEN rushed \cup {u}
                                          ELSE rushed
      BY <1>4 DEF LoginCheck
    <2>2. fails[u] < MaxTries /\ fails[u] \in Nat /\ MaxTries \in Nat
      BY <2>1, AllowedMeans, SessionAssumption DEF TriesInv
    <2>3. ~(fails[u] >= MaxTries)
      BY <2>2
    <2> QED
      BY <1>4, <2>1, <2>3 DEF LoginCheck
  <1> QED
    BY <1>1, <1>2, <1>3, <1>4
       DEF Next, vars, gates, history, SessionStep, Refuse, FindUser, MakeUser,
           MakeSessionUser, RegisterCheck, Register, LoginFails, LoginSucceeds, Logout,
           LogoutOf, Clock, TokenExpires, TriesAge, Cleanup, AttemptsAge, Restart,
           ChatStep, Enter, StoreHash, StoreExpire, StoreIndex, ReadReactions,
           WriteReactions, WriteSet, Join, Beat, Leave, Unbeat, Type, KeyExpires

-----------------------------------------------------------------------------
(* What is left of a message: of a handler that writes reactions, that its *)
(* message is in the index or has an id that never was; of one that stores *)
(* a message, that nothing but itself has come near it.                    *)
DraftInv ==
  /\ draft \in [Requests -> [message : Messages, adds : BOOLEAN, read : SUBSET Users]]
  /\ \A r \in Requests : pc[r] = "write reactions" => draft[r].message \in index \cup {UnknownId}

StoreInv ==
  \A r \in Requests :
    /\ r \in index => pc[r] = "done"
    /\ HasMessage(r) => pc[r] \in {"expire", "zadd", "done"}
    /\ pc[r] = "expire" => HasMessage(r) /\ ~message[r].ends

ReactionInv ==
  /\ intended \in [Messages -> SUBSET Users]
  /\ \A m \in Messages : m \in torn \/ intended[m] = Reactions(m)

EndsInv ==
  \A m \in Messages : HasMessage(m) =>
    message[m].ends \/ m \in loose \/ (m \in Requests /\ pc[m] = "expire")

MessageInv == ChatTypeOK /\ DraftInv /\ StoreInv /\ ReactionInv /\ EndsInv

ChatInv == GateInv /\ MessageInv

LEMMA MessageInit == Init => MessageInv
  <1> SUFFICES ASSUME Init PROVE MessageInv
    OBVIOUS
  <1> DEFINE first == [whole |-> TRUE, ends |-> TRUE, reactions |-> {}]
  <1>1. /\ message = [m \in Messages |-> IF m = FirstMessage THEN first ELSE NoMessage]
        /\ first \in Hashes /\ first.whole /\ first.ends /\ first.reactions = {}
    BY DEF Init, InitChat, Hashes
  <1> HIDE DEF first
  <1>2. \A m \in Messages : message[m] = first \/ message[m] = NoMessage
    BY <1>1
  <1>3. \A r \in Requests : message[r] = NoMessage
    BY <1>1, ChatAssumption DEF Messages
  <1>4. FirstMessage \in Messages /\ Requests \subseteq Messages
    BY DEF Messages
  <1>5. \A r \in Requests : pc[r] = "idle"
    BY DEF Init
  <1>6. ChatTypeOK
    BY <1>1, <1>2, <1>4 DEF Init, InitChat, ChatTypeOK, HasMessage
  <1>7. DraftInv
    BY <1>4, <1>5 DEF Init, InitChat, DraftInv, NoDraft
  <1>8. StoreInv
    BY <1>3, <1>5, ChatAssumption DEF Init, InitChat, StoreInv, HasMessage
  <1>9. ReactionInv
    BY <1>1, <1>2 DEF Init, InitChat, ReactionInv, Reactions, HasMessage
  <1>10. EndsInv
    BY <1>1, <1>2 DEF EndsInv, HasMessage
  <1> QED
    BY <1>6, <1>7, <1>8, <1>9, <1>10 DEF MessageInv

(* A handler that does nothing to the chat stays out of the places where   *)
(* it would, but may give up there.                                        *)
LEMMA OutsideChat ==
  ASSUME MessageInv, UNCHANGED <<draft, message, index, online, beating, typing, intended, torn>>,
         \A r \in Requests : \/ pc'[r] = pc[r]
                             \/ /\ pc[r] \in AtSession \cup {"route"}
                                /\ pc'[r] \notin {"expire", "write reactions"}
                             \/ pc'[r] = "done",
         loose \subseteq loose',
         \A r \in Requests : pc[r] = "expire" /\ pc'[r] # "expire" => r \in loose'
  PROVE  MessageInv'
  <1>1. ChatTypeOK' /\ ReactionInv'
    BY DEF MessageInv, ChatTypeOK, ReactionInv, Reactions, HasMessage
  <1>2. DraftInv' /\ StoreInv'
    BY DEF MessageInv, DraftInv, StoreInv, HasMessage, AtSession
  <1>3. EndsInv'
    BY DEF MessageInv, EndsInv, HasMessage
  <1> QED
    BY <1>1, <1>2, <1>3 DEF MessageInv

LEMMA OutsideNext ==
  ASSUME GateInv, MessageInv,
         \/ UNCHANGED vars
         \/ \E r \in Requests :
              \/ SessionStep(r) /\ UNCHANGED <<draft, chat>>
              \/ Running(r) /\ Answer(r) /\ ChatFails({r}) /\ UNCHANGED <<session, gates>>
              \/ Enter(r)
         \/ Clock /\ UNCHANGED <<draft, chat>>
         \/ Restart /\ ChatFails(Requests)
  PROVE  MessageInv'
  <1> USE DEF GateInv, PlaceInv
  <1>1. CASE UNCHANGED <<pc, draft, chat>>
    BY <1>1, OutsideChat DEF chat
  <1>2. ASSUME NEW r \in Requests, SessionStep(r), UNCHANGED <<draft, chat>>
        PROVE  MessageInv'
    <2>1. /\ pc[r] \in AtSession /\ pc'[r] \notin {"expire", "write reactions"}
          /\ \A q \in Requests : q # r => pc'[q] = pc[q]
      BY <1>2
         DEF SessionStep, Authenticate, Refuse, FindUser, MakeUser, CookieSession,
             MakeSessionUser, RegisterCheck, Register, LoginCheck, LoginFails,
             LoginSucceeds, Logout, LogoutOf, Goto, Answer, AtSession
    <2> QED
      BY <1>2, <2>1, OutsideChat DEF chat, AtSession
  <1>3. ASSUME NEW r \in Requests, Answer(r), ChatFails({r}) PROVE MessageInv'
    BY <1>3, OutsideChat DEF Answer, Goto, ChatFails
  <1>4. ASSUME NEW r \in Requests, Enter(r) PROVE MessageInv'
    BY <1>4, OutsideChat DEF Enter, Goto, chat
  <1>5. CASE Clock /\ UNCHANGED <<draft, chat>>
    BY <1>1, <1>5 DEF Clock, TokenExpires, TriesAge, Cleanup, AttemptsAge
  <1>6. CASE Restart /\ ChatFails(Requests)
    BY <1>6, OutsideChat DEF Restart, ChatFails
  <1> QED
    BY <1>1, <1>2, <1>3, <1>4, <1>5, <1>6 DEF vars

(* storeMessage                                                            *)
LEMMA StoreNext ==
  ASSUME GateInv, MessageInv, NEW r \in Requests,
         StoreHash(r) \/ StoreExpire(r) \/ StoreIndex(r)
  PROVE  MessageInv'
  <1> USE DEF GateInv, PlaceInv, Goto, Answer
  <1>1. r \in Messages /\ pc \in [Requests -> AtSession \cup AtChat \cup {"done"}]
    BY DEF Messages
  <1>2. /\ ChatTypeOK /\ DraftInv /\ StoreInv /\ ReactionInv /\ EndsInv
        /\ message \in [Messages -> Hashes \cup {NoMessage}]
    BY DEF MessageInv, ChatTypeOK
  <1>3. CASE StoreHash(r)
    <2> DEFINE new == [whole |-> TRUE, ends |-> FALSE, reactions |-> {}]
    <2>1. /\ pc[r] = "hset" /\ message' = [message EXCEPT ![r] = new]
          /\ pc' = [pc EXCEPT ![r] = "expire"]
          /\ UNCHANGED <<draft, index, online, beating, typing, intended, torn, loose>>
      BY <1>3 DEF StoreHash
    <2>2. new \in Hashes /\ new.whole /\ ~new.ends /\ new.reactions = {}
      BY DEF Hashes
    <2> HIDE DEF new
    <2>10. new # NoMessage
      BY <2>2, ChatAssumption
    <2>3. ~HasMessage(r) /\ r \notin index
      BY <1>2, <2>1 DEF StoreInv
    <2>4. /\ message'[r] = new /\ pc'[r] = "expire"
          /\ \A m \in Messages : m # r => message'[m] = message[m]
          /\ \A q \in Requests : q # r => pc'[q] = pc[q]
      BY <1>1, <1>2, <2>1
    <2>5. ChatTypeOK'
      BY <1>2, <2>1, <2>2, <2>4 DEF ChatTypeOK, HasMessage
    <2>6. DraftInv'
      BY <1>2, <2>1, <2>4 DEF DraftInv
    <2>7. StoreInv'
      BY <1>1, <1>2, <2>1, <2>2, <2>3, <2>4, <2>10 DEF StoreInv, HasMessage, Messages
    <2>8. ReactionInv'
      BY <1>1, <1>2, <2>1, <2>2, <2>3, <2>4 DEF ReactionInv, Reactions, HasMessage
    <2>9. EndsInv'
      BY <1>2, <2>1, <2>4 DEF EndsInv, HasMessage
    <2> QED
      BY <2>5, <2>6, <2>7, <2>8, <2>9 DEF MessageInv
  <1>4. CASE StoreExpire(r)
    <2>1. /\ pc[r] = "expire" /\ message' = [message EXCEPT ![r] = [message[r] EXCEPT !.ends = TRUE]]
          /\ pc' = [pc EXCEPT ![r] = "zadd"]
          /\ UNCHANGED <<draft, index, online, beating, typing, intended, torn, loose>>
      BY <1>4 DEF StoreExpire
    <2> DEFINE new == [message[r] EXCEPT !.ends = TRUE]
    <2>2. HasMessage(r) /\ message[r] \in Hashes
      BY <1>1, <1>2, <2>1 DEF StoreInv, HasMessage
    <2>3. /\ new \in Hashes /\ new.ends /\ new.whole = message[r].whole
          /\ new.reactions = message[r].reactions
      BY <2>2 DEF Hashes
    <2>10. new # NoMessage
      BY <2>3, ChatAssumption
    <2> HIDE DEF new
    <2>4. /\ message'[r] = new /\ pc'[r] = "zadd"
          /\ \A m \in Messages : m # r => message'[m] = message[m]
          /\ \A q \in Requests : q # r => pc'[q] = pc[q]
      BY <1>1, <1>2, <2>1 DEF new
    <2>5. ChatTypeOK'
      BY <1>1, <1>2, <2>1, <2>2, <2>3, <2>4 DEF ChatTypeOK, HasMessage
    <2>6. DraftInv'
      BY <1>2, <2>1, <2>4 DEF DraftInv
    <2>7. StoreInv'
      BY <1>1, <1>2, <2>1, <2>2, <2>3, <2>4, <2>10 DEF StoreInv, HasMessage, Messages
    <2>8. ReactionInv'
      <3>1. HasMessage(r)' /\ Reactions(r)' = Reactions(r)
        BY <2>2, <2>3, <2>4, <2>10 DEF Reactions, HasMessage
      <3>2. \A m \in Messages : Reactions(m)' = Reactions(m)
        BY <2>4, <3>1 DEF Reactions, HasMessage
      <3> QED
        BY <1>2, <2>1, <3>2 DEF ReactionInv
    <2>9. EndsInv'
      BY <1>2, <2>1, <2>3, <2>4 DEF EndsInv, HasMessage
    <2> QED
      BY <2>5, <2>6, <2>7, <2>8, <2>9 DEF MessageInv
  <1>5. CASE StoreIndex(r)
    <2>1. /\ pc[r] = "zadd" /\ index' = index \cup {r} /\ pc' = [pc EXCEPT ![r] = "done"]
          /\ UNCHANGED <<draft, message, online, beating, typing, intended, torn, loose>>
      BY <1>5 DEF StoreIndex
    <2>2. ChatTypeOK' /\ DraftInv'
      BY <1>1, <1>2, <2>1 DEF ChatTypeOK, DraftInv, HasMessage
    <2>3. StoreInv' /\ ReactionInv' /\ EndsInv'
      BY <1>1, <1>2, <2>1 DEF StoreInv, ReactionInv, EndsInv, Reactions, HasMessage
    <2> QED
      BY <2>2, <2>3 DEF MessageInv
  <1> QED
    BY <1>3, <1>4, <1>5

(* The rest of the chat                                                    *)
LEMMA ReactNext ==
  ASSUME GateInv, MessageInv, NEW r \in Requests,
         ReadReactions(r) \/ WriteReactions(r)
  PROVE  MessageInv'
  <1> USE DEF GateInv, PlaceInv, Goto, Answer
  <1>2. /\ ChatTypeOK /\ DraftInv /\ StoreInv /\ ReactionInv /\ EndsInv
        /\ message \in [Messages -> Hashes \cup {NoMessage}]
        /\ index \subseteq Messages /\ session[r] \in Users
    BY DEF MessageInv, ChatTypeOK, SessionTypeOK
  <1>3. CASE ReadReactions(r)
    <2>1. PICK m \in index \cup {UnknownId}, adds \in BOOLEAN :
            draft' = [draft EXCEPT ![r] = [message |-> m, adds |-> adds, read |-> Reactions(m)]]
      BY <1>3 DEF ReadReactions
    <2>2. /\ pc[r] = "read reactions" /\ pc' = [pc EXCEPT ![r] = "write reactions"]
          /\ UNCHANGED chat
      BY <1>3 DEF ReadReactions
    <2>3. m \in Messages /\ Reactions(m) \in SUBSET Users
      BY <1>2 DEF Reactions, HasMessage, Hashes, Messages
    <2>4. DraftInv'
      BY <1>2, <2>1, <2>2, <2>3 DEF DraftInv, chat
    <2>5. ChatTypeOK' /\ StoreInv' /\ ReactionInv' /\ EndsInv'
      BY <1>2, <2>2
         DEF chat, ChatTypeOK, StoreInv, ReactionInv, EndsInv, Reactions, HasMessage
    <2> QED
      BY <2>4, <2>5 DEF MessageInv
  <1>4. CASE WriteReactions(r)
    <2> DEFINE d   == draft[r]
               m   == d.message
               new == With(d.read, session[r], d.adds)
               row == IF HasMessage(m) THEN [message[m] EXCEPT !.reactions = new]
                      ELSE [whole |-> FALSE, ends |-> FALSE, reactions |-> new]
    <2>1. /\ pc[r] = "write reactions" /\ message' = [message EXCEPT ![m] = row]
          /\ intended' = [intended EXCEPT ![m] = With(intended[m], session[r], d.adds)]
          /\ torn' = IF d.read # Reactions(m) THEN torn \cup {m} ELSE torn
          /\ loose' = IF HasMessage(m) THEN loose ELSE loose \cup {m}
          /\ pc' = [pc EXCEPT ![r] = "done"]
          /\ UNCHANGED <<draft, index, online, beating, typing>>
      BY <1>4 DEF WriteReactions, WriteSet
    <2>2. m \in index \cup {UnknownId} /\ m \in Messages /\ d.read \in SUBSET Users
      BY <1>2, <2>1 DEF DraftInv
    <2>3. new \in SUBSET Users /\ With(intended[m], session[r], d.adds) \in SUBSET Users
      BY <1>2, <2>2 DEF With, ReactionInv
    <2>12. HasMessage(m) => message[m] \in Hashes
      BY <1>2, <2>2 DEF HasMessage
    <2> HIDE DEF m, new
    <2>13. /\ row \in Hashes /\ row.reactions = new
           /\ HasMessage(m) => row.ends = message[m].ends
      BY <2>3, <2>12 DEF Hashes
    <2> HIDE DEF row
    <2>4. /\ row \in Hashes /\ row # NoMessage /\ row.reactions = new
          /\ HasMessage(m) => row.ends = message[m].ends
      BY <2>13, ChatAssumption
    <2> USE DEF m, new
    <2>5. m \notin torn' => intended'[m] = new
      BY <1>2, <2>1, <2>2 DEF ReactionInv
    <2> HIDE DEF new
    <2>6. /\ message'[m] = row
          /\ \A x \in Messages : x # m => message'[x] = message[x]
          /\ \A q \in Requests : q # r => pc'[q] = pc[q]
          /\ \A x \in Messages : x # m => intended'[x] = intended[x]
      BY <1>2, <2>1, <2>2 DEF ReactionInv
    <2> HIDE DEF m
    <2>7. ChatTypeOK'
      BY <1>2, <2>1, <2>2, <2>4, <2>6 DEF ChatTypeOK, HasMessage
    <2>8. DraftInv'
      BY <1>2, <2>1, <2>6 DEF DraftInv
    <2>9. StoreInv'
      BY <1>2, <2>1, <2>2, <2>6, ChatAssumption DEF StoreInv, HasMessage, Messages
    <2>10. ReactionInv'
      BY <1>2, <2>1, <2>2, <2>3, <2>4, <2>5, <2>6 DEF ReactionInv, Reactions, HasMessage
    <2>11. EndsInv'
      BY <1>2, <2>1, <2>2, <2>4, <2>6 DEF EndsInv, HasMessage
    <2> QED
      BY <2>7, <2>8, <2>9, <2>10, <2>11 DEF MessageInv
  <1> QED
    BY <1>3, <1>4

LEMMA PresenceNext ==
  ASSUME GateInv, MessageInv, NEW r \in Requests,
         Join(r) \/ Beat(r) \/ Leave(r) \/ Unbeat(r) \/ Type(r)
  PROVE  MessageInv'
  <1>1. session[r] \in Users
    BY DEF GateInv, SessionTypeOK
  <1>2. /\ pc[r] \in {"sadd", "beat", "srem", "unbeat", "type"}
        /\ pc'[r] \in {"beat", "unbeat", "done"}
        /\ \A q \in Requests : q # r => pc'[q] = pc[q]
        /\ UNCHANGED <<draft, message, index, intended, torn, loose>>
    BY DEF GateInv, PlaceInv, Join, Beat, Leave, Unbeat, Type, Goto, Answer
  <1>3. (online \cup beating \cup typing \subseteq Users)'
    BY <1>1 DEF MessageInv, ChatTypeOK, Join, Beat, Leave, Unbeat, Type
  <1>4. ChatTypeOK' /\ ReactionInv'
    BY <1>2, <1>3 DEF MessageInv, ChatTypeOK, ReactionInv, Reactions, HasMessage
  <1>5. DraftInv' /\ StoreInv' /\ EndsInv'
    BY <1>2 DEF MessageInv, DraftInv, StoreInv, EndsInv, HasMessage
  <1> QED
    BY <1>4, <1>5 DEF MessageInv

LEMMA ExpiryNext == MessageInv /\ KeyExpires => MessageInv'
  <1> SUFFICES ASSUME MessageInv, KeyExpires PROVE MessageInv'
    OBVIOUS
  <1>1. UNCHANGED <<pc, draft, index, online, torn, loose>>
    BY DEF KeyExpires
  <1>2. CASE UNCHANGED <<message, intended>>
    <2>1. (online \cup beating \cup typing \subseteq Users)'
      BY <1>1, <1>2 DEF MessageInv, ChatTypeOK, KeyExpires
    <2> QED
      BY <1>1, <1>2, <2>1 DEF MessageInv, ChatTypeOK, DraftInv, StoreInv, ReactionInv,
         EndsInv, Reactions, HasMessage
  <1>3. ASSUME NEW m \in Messages, HasMessage(m), message[m].ends,
               message' = [message EXCEPT ![m] = NoMessage],
               intended' = [intended EXCEPT ![m] = {}],
               UNCHANGED <<beating, typing>>
        PROVE  MessageInv'
    <2>1. /\ message'[m] = NoMessage /\ intended'[m] = {}
          /\ \A x \in Messages : x # m => message'[x] = message[x] /\ intended'[x] = intended[x]
      BY <1>3 DEF MessageInv, ChatTypeOK, ReactionInv
    <2>2. ChatTypeOK'
      BY <1>1, <1>3, <2>1 DEF MessageInv, ChatTypeOK, HasMessage
    <2>3. DraftInv' /\ StoreInv' /\ EndsInv'
      BY <1>1, <1>3, <2>1 DEF MessageInv, DraftInv, StoreInv, EndsInv, HasMessage, Messages
    <2>4. ReactionInv'
      BY <1>1, <1>3, <2>1 DEF MessageInv, ReactionInv, Reactions, HasMessage
    <2> QED
      BY <2>2, <2>3, <2>4 DEF MessageInv
  <1> QED
    BY <1>2, <1>3 DEF KeyExpires

(* ChatInv is inductive.                                                   *)
THEOREM ChatInvariant == Spec => []ChatInv
  <1>1. Init => ChatInv
    BY GateInit, MessageInit DEF ChatInv
  <1>2. ChatInv /\ [Next]_vars => ChatInv'
    <2>1. GateInv /\ [Next]_vars => GateInv'
      BY PlaceNext, SessionTypesNext, LogoutNext, TriesNext, LoneNext, PassNext DEF GateInv
    <2>2. GateInv /\ MessageInv /\ [Next]_vars => MessageInv'
      BY OutsideNext, StoreNext, ReactNext, PresenceNext, ExpiryNext DEF Next, ChatStep
    <2> QED
      BY <2>1, <2>2 DEF ChatInv
  <1> QED
    BY <1>1, <1>2, PTL DEF Spec

(* The variables keep their types.                                         *)
THEOREM ServiceTypes == Spec => []TypeOK
  BY ChatInvariant, PTL DEF ChatInv, GateInv, MessageInv, TypeOK

(* Whatever logins, logouts, expiries and restarts interleave, no token of *)
(* the backend gets in after its logout was answered, no login reaches the *)
(* password after MaxTries recent failures of its e-mail, and there are no *)
(* more failures than that unless its logins overlapped.  Of NextAuth's    *)
(* tokens nothing of the kind is true, nor proved.                         *)
THEOREM Admission == Spec => []AdmissionsNeedCause
  <1>1. ChatInv => AdmissionsNeedCause
    BY DEF ChatInv, GateInv, PassInv, LoneInv, AdmissionsNeedCause
  <1> QED
    BY ChatInvariant, <1>1, PTL

(* For any number of writers, a message keeps the reactions given to it    *)
(* and ends with its time to live, but for the causes that are named.      *)
THEOREM MessagesKeep == Spec => []MessagesNeedCause
  <1>1. ChatInv => MessagesNeedCause
    BY DEF ChatInv, MessageInv, ReactionInv, EndsInv, MessagesNeedCause, Reactions
  <1> QED
    BY ChatInvariant, <1>1, PTL
=============================================================================
