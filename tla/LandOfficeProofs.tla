-------------------------- MODULE LandOfficeProofs ---------------------------
(***************************************************************************)
(* Proofs about module LandOffice: its types, the two records of a wallet, *)
(* the number of a user's requests and the records of pictures, for any    *)
(* number of requests, users, wallets and plots.                           *)
(***************************************************************************)
EXTENDS LandOffice, FiniteSetTheorems, SequenceTheorems, WellFoundedInduction, TLAPS

-----------------------------------------------------------------------------
(* The inductive invariant                                                 *)

Args == [user : Accounts \cup {NoAccount}, address : Addresses \cup {NoAddress},
         verified : BOOLEAN]
HeldRows == [row : Nat, wallet : Addresses \cup {NoAddress}, plot : Nat, where : Places,
             listing : Requests \cup {NoListing}]

(* Places that look at the account, and what they know of it.              *)
AtAccount == {"upsert", "sync", "assign", "start", "connect", "create", "criteria"}
AtAddress == {"upsert", "signup"}

PlaceInv ==
  /\ DOMAIN pc = Requests
  /\ \A r \in Requests :
       /\ At(r, AtAccount) => arg[r].user \in Accounts /\ HasAccount(arg[r].user)
       /\ At(r, AtAddress) => arg[r].address \in Addresses

(* Outside its two writes a user's records agree; between them there is    *)
(* one writer, which is about to make them agree.                          *)
PairInv ==
  \A a \in Accounts : HasAccount(a) /\ a \notin mixed =>
    /\ Syncing(a) = {} => user[a].wallet = Listed(a)
    /\ \A r \in Syncing(a) : arg[r].address = Listed(a) /\ Syncing(a) = {r}

WalletInv == PlaceInv /\ WalletTypeOK /\ PairInv

(* What handlers of land requests hold is there, and a plot that is being  *)
(* selected belongs to its request.                                        *)
HeldInv ==
  /\ held \in [Requests -> HeldRows] /\ twins \in [Accounts -> Nat]
  /\ \A r \in Requests :
       /\ At(r, {"start"}) => held[r].row = 0
       /\ At(r, {"connect", "create", "criteria"}) => held[r].row \in {0} \cup DOMAIN land
       /\ At(r, {"select"}) => /\ held[r].row \in DOMAIN land
                              /\ held[r].plot \in DOMAIN plots
                              /\ plots[held[r].plot].request = held[r].row

(* Those who will create a user's first request count as requests.         *)
Mine(u) == {i \in DOMAIN land : land[i].user = u}

CountInv ==
  \A u \in Accounts :
    /\ IsFiniteSet(Founding(u))
    /\ Cardinality(Mine(u)) + Cardinality(Founding(u)) <= 1 + twins[u]

LandInv == LandTypeOK /\ HeldInv /\ CountInv

(* What a handler of pictures asks for is there, and what it is about to   *)
(* answer with a picture is recorded.                                      *)
AtPicture == {"fetch", "fetch image", "keep", "keep image", "record", "record image", "answer"}

SeenInv ==
  /\ seen \in [Requests -> [plot : Nat, url : BOOLEAN]]
  /\ \A r \in Requests :
       At(r, AtPicture) => /\ seen[r].plot \in DOMAIN plots
                           /\ seen[r].url => seen[r].plot \in recorded

ImageryInv == ImageryTypeOK /\ SeenInv /\ ImageryIsRecorded

OfficeInv == WalletInv /\ LandInv /\ ImageryInv

-----------------------------------------------------------------------------
LEMMA WalletInit == Init => WalletInv
  <1> SUFFICES ASSUME Init PROVE WalletInv
    OBVIOUS
  <1>1. PlaceInv
    BY DEF Init, PlaceInv, At, AtAccount, AtAddress
  <1>2. PICK owner \in People, w \in Wallets, known \in BOOLEAN :
          /\ user = [a \in Accounts |->
                       IF a \in People
                       THEN [wallet |-> IF known /\ a = owner THEN Given(w) ELSE NoAddress,
                             mail |-> NoWallet]
                       ELSE NoAccount]
          /\ userWallet = [a \in Accounts |->
                             IF known /\ a = owner THEN [address |-> Given(w), verified |-> TRUE]
                             ELSE NoRecord]
    BY DEF Init, InitWallets
  <1>3. Given(w) \in Addresses
    BY DEF Given, Addresses
  <1>4. user \in [Accounts -> UserRows \cup {NoAccount}]
    BY <1>2, <1>3 DEF UserRows
  <1>5. userWallet \in [Accounts -> WalletRows \cup {NoRecord}]
    BY <1>2, <1>3 DEF WalletRows
  <1>6. \A a \in Accounts : Listed(a) = IF known /\ a = owner THEN Given(w) ELSE NoAddress
    <2> SUFFICES ASSUME NEW a \in Accounts
                 PROVE Listed(a) = IF known /\ a = owner THEN Given(w) ELSE NoAddress
      OBVIOUS
    <2>1. [address |-> Given(w), verified |-> TRUE] \in WalletRows
      BY <1>3 DEF WalletRows
    <2> QED
      BY <1>2, <2>1, WalletAssumption DEF Listed
  <1>7. arg = [r \in Requests |-> NoArg] /\ mixed = {}
    BY DEF Init, InitWallets
  <1>8. WalletTypeOK
    BY <1>4, <1>5, <1>6, <1>7 DEF WalletTypeOK, NoArg
  <1>9. PairInv
    <2>1. \A a \in Accounts : Syncing(a) = {}
      BY DEF Init, Syncing
    <2>2. ASSUME NEW a \in Accounts, HasAccount(a) PROVE user[a].wallet = Listed(a)
      BY <1>2, <1>6, <2>2 DEF HasAccount, Accounts
    <2> QED
      BY <2>1, <2>2 DEF PairInv
  <1> QED
    BY <1>1, <1>8, <1>9 DEF WalletInv

(* A handler that is not between the two writes, and does not go there,    *)
(* disturbs nothing.                                                       *)
LEMMA Enters ==
  ASSUME WalletInv, NEW r \in Requests, pc[r] = "idle", NEW x \in Args, NEW place,
         arg' = [arg EXCEPT ![r] = x], Goto(r, place), UNCHANGED wallets, place # "sync",
         place \in AtAccount => x.user \in Accounts /\ HasAccount(x.user),
         place \in AtAddress => x.address \in Addresses
  PROVE  WalletInv'
  <1> USE DEF WalletInv, wallets
  <1>1. \A s \in Requests : /\ pc'[s] = IF s = r THEN place ELSE pc[s]
                            /\ arg'[s] = IF s = r THEN x ELSE arg[s]
    BY DEF PlaceInv, Goto, WalletTypeOK
  <1>2. PlaceInv'
    BY <1>1 DEF PlaceInv, Goto, At, HasAccount
  <1>3. \A a \in Accounts : Listed(a)' = Listed(a) /\ Syncing(a)' = Syncing(a)
    BY <1>1 DEF Listed, Syncing
  <1>4. WalletTypeOK'
    BY <1>3 DEF WalletTypeOK, Args
  <1>5. PairInv'
    BY <1>1, <1>3 DEF PairInv, HasAccount, Syncing
  <1> QED
    BY <1>2, <1>4, <1>5

LEMMA Goes ==
  ASSUME WalletInv, NEW r \in Requests, NEW place, Goto(r, place),
         UNCHANGED <<arg, wallets>>, pc[r] # "sync", place # "sync",
         place \in AtAccount => At(r, AtAccount), place \in AtAddress => At(r, AtAddress)
  PROVE  WalletInv'
  <1> USE DEF WalletInv, wallets
  <1>1. \A s \in Requests : pc'[s] = IF s = r THEN place ELSE pc[s]
    BY DEF PlaceInv, Goto
  <1>2. PlaceInv'
    BY <1>1 DEF PlaceInv, Goto, At, HasAccount
  <1>3. \A a \in Accounts : Listed(a)' = Listed(a) /\ Syncing(a)' = Syncing(a)
    BY <1>1 DEF Listed, Syncing
  <1>4. WalletTypeOK'
    BY <1>3 DEF WalletTypeOK
  <1>5. PairInv'
    BY <1>1, <1>3 DEF PairInv, HasAccount, Syncing
  <1> QED
    BY <1>2, <1>4, <1>5

(* The two that write UserWallet.  Either begins a pair of writes, and     *)
(* whoever meets another between its writes is remembered.                 *)
LEMMA PairBegins ==
  ASSUME WalletInv, NEW r \in Requests, NEW x \in Args, NEW row,
         pc[r] # "sync", x.user \in Accounts, HasAccount(x.user),
         \/ row = NoRecord /\ x.address = NoAddress
         \/ row \in WalletRows /\ row.address = x.address /\ ~TakenFrom(x.user, x.address),
         userWallet' = [userWallet EXCEPT ![x.user] = row], BeginPair(x.user),
         arg' = [arg EXCEPT ![r] = x], Goto(r, "sync"), user' = user
  PROVE  WalletInv'
  <1> USE DEF WalletInv
  <1> DEFINE a == x.user
  <1>1. \A s \in Requests : /\ pc'[s] = IF s = r THEN "sync" ELSE pc[s]
                            /\ arg'[s] = IF s = r THEN x ELSE arg[s]
    BY DEF PlaceInv, Goto, WalletTypeOK
  <1>2. PlaceInv'
    BY <1>1 DEF PlaceInv, Goto, At, AtAccount, AtAddress, HasAccount
  <1>3. /\ Listed(a)' = x.address
        /\ \A b \in Accounts : b # a => Listed(b)' = Listed(b)
    BY WalletAssumption DEF Listed, WalletTypeOK, WalletRows
  <1>4. WalletTypeOK'
    <2>1. arg' \in [Requests -> Args] /\ userWallet' \in [Accounts -> WalletRows \cup {NoRecord}]
      BY DEF WalletTypeOK, Args
    <2>2. mixed' \subseteq Accounts
      BY DEF WalletTypeOK, BeginPair
    <2>3. \A b \in Accounts : b # a => Listed(b) # x.address \/ x.address = NoAddress
      BY DEF TakenFrom
    <2>4. \A b, c \in Accounts : Listed(b)' = Listed(c)' => b = c \/ Listed(b)' = NoAddress
      BY <1>3, <2>3 DEF WalletTypeOK
    <2> QED
      BY <2>1, <2>2, <2>4 DEF WalletTypeOK, Args
  <1>5. /\ Syncing(a)' = Syncing(a) \cup {r}
        /\ \A b \in Accounts : b # a => Syncing(b)' = Syncing(b)
    BY <1>1 DEF Syncing
  <1>6. PairInv'
    <2> SUFFICES ASSUME NEW b \in Accounts, HasAccount(b), b \notin mixed'
                 PROVE /\ Syncing(b)' = {} => user[b].wallet = Listed(b)'
                       /\ \A s \in Syncing(b)' : /\ arg'[s].address = Listed(b)'
                                                 /\ Syncing(b)' = {s}
      BY DEF PairInv, HasAccount
    <2>1. CASE b = a
      <3>1. Syncing(a) = {}
        BY <2>1 DEF BeginPair
      <3> QED
        BY <1>1, <1>3, <1>5, <2>1, <3>1
    <2>2. CASE b # a
      <3>1. b \notin mixed /\ r \notin Syncing(b)
        BY <2>2 DEF BeginPair, Syncing
      <3> QED
        BY <1>1, <1>3, <1>5, <2>2, <3>1 DEF PairInv, Syncing
    <2> QED
      BY <2>1, <2>2
  <1> QED
    BY <1>2, <1>4, <1>6

(* A handler that writes a user's own record, or leaves it unwritten: it   *)
(* completes the pair it began, or is remembered.                          *)
LEMMA PairEnds ==
  ASSUME WalletInv, NEW r \in Requests, NEW a \in Accounts, NEW row \in UserRows,
         \/ /\ pc[r] = "sync" /\ a = arg[r].user /\ mixed' = mixed
            /\ row.wallet = arg[r].address
         \/ pc[r] # "sync" /\ mixed' = mixed \cup {a},
         user' = [user EXCEPT ![a] = row], Answer(r), UNCHANGED <<userWallet, arg>>
  PROVE  WalletInv'
  <1> USE DEF WalletInv
  <1>1. \A s \in Requests : pc'[s] = IF s = r THEN "done" ELSE pc[s]
    BY DEF PlaceInv, Goto, Answer
  <1>2. \A b \in Accounts : user'[b] = IF b = a THEN row ELSE user[b]
    BY DEF WalletTypeOK
  <1>3. HasAccount(a)' /\ \A b \in Accounts : b # a => HasAccount(b)' = HasAccount(b)
    BY <1>2, WalletAssumption DEF HasAccount
  <1>4. PlaceInv'
    BY <1>1, <1>3 DEF PlaceInv, Goto, Answer, At, AtAccount, AtAddress
  <1>5. \A b \in Accounts : Listed(b)' = Listed(b) /\ Syncing(b)' = Syncing(b) \ {r}
    BY <1>1 DEF Listed, Syncing
  <1>6. WalletTypeOK'
    BY <1>5 DEF WalletTypeOK
  <1>7. PairInv'
    <2> SUFFICES ASSUME NEW b \in Accounts, HasAccount(b)', b \notin mixed'
                 PROVE /\ Syncing(b)' = {} => user'[b].wallet = Listed(b)'
                       /\ \A s \in Syncing(b)' : /\ arg[s].address = Listed(b)'
                                                 /\ Syncing(b)' = {s}
      BY DEF PairInv
    <2>1. CASE b = a
      <3>1. HasAccount(a) /\ pc[r] = "sync" /\ r \in Syncing(a)
        BY <2>1 DEF PlaceInv, At, AtAccount, Syncing
      <3> QED
        BY <1>2, <1>5, <2>1, <3>1 DEF PairInv
    <2>2. CASE b # a
      <3>1. r \notin Syncing(b) /\ b \notin mixed
        BY <2>2 DEF Syncing
      <3> QED
        BY <1>2, <1>3, <1>5, <2>2, <3>1 DEF PairInv
    <2> QED
      BY <2>1, <2>2
  <1> QED
    BY <1>4, <1>6, <1>7

(* A failure leaves a handler's records as they are.                       *)
LEMMA PairFails ==
  ASSUME WalletInv, NEW r \in Requests, Running(r), Answer(r), WalletFails(r)
  PROVE  WalletInv'
  <1> USE DEF WalletInv, WalletFails
  <1>1. \A s \in Requests : pc'[s] = IF s = r THEN "done" ELSE pc[s]
    BY DEF PlaceInv, Goto, Answer
  <1>2. PlaceInv'
    BY <1>1 DEF PlaceInv, Goto, Answer, At, AtAccount, AtAddress, HasAccount
  <1>3. \A b \in Accounts : Listed(b)' = Listed(b) /\ Syncing(b)' = Syncing(b) \ {r}
    BY <1>1 DEF Listed, Syncing
  <1>4. pc[r] = "sync" => arg[r].user \in Accounts
    BY DEF PlaceInv, At, AtAccount
  <1>5. WalletTypeOK'
    BY <1>3, <1>4 DEF WalletTypeOK
  <1>6. PairInv'
    <2> SUFFICES ASSUME NEW b \in Accounts, HasAccount(b), b \notin mixed'
                 PROVE /\ Syncing(b)' = {} => user[b].wallet = Listed(b)'
                       /\ \A s \in Syncing(b)' : /\ arg[s].address = Listed(b)'
                                                 /\ Syncing(b)' = {s}
      BY DEF PairInv, HasAccount
    <2>1. r \notin Syncing(b) /\ b \notin mixed
      BY DEF Syncing
    <2> QED
      BY <1>3, <2>1 DEF PairInv
  <1> QED
    BY <1>2, <1>5, <1>6

LEMMA WalletStepKeeps ==
  ASSUME WalletInv, NEW r \in Requests, WalletStep(r) \/ AssignWallet(r)
  PROVE  WalletInv'
  <1>0. NoArg \in Args
    BY DEF NoArg, Args
  <1>1. ASSUME NEW verified \in BOOLEAN, WalletCheck(r, verified) PROVE WalletInv'
    <2>1. PICK a \in Accounts, w \in Wallets :
            /\ HasAccount(a)
            /\ arg' = [arg EXCEPT ![r] = [user |-> a, address |-> Given(w),
                                         verified |-> verified]]
      BY <1>1 DEF WalletCheck
    <2>2. Given(w) \in Addresses
      BY DEF Given, Addresses
    <2> QED
      BY <1>1, <2>1, <2>2, Enters DEF WalletCheck, Args
  <1>2. CASE UpsertWallet(r)
    <2>1. /\ arg[r] \in Args /\ arg[r].address \in Addresses
          /\ arg[r].user \in Accounts /\ HasAccount(arg[r].user)
      BY <1>2 DEF UpsertWallet, WalletInv, WalletTypeOK, PlaceInv, At, AtAccount, AtAddress,
                  Args
    <2>2. CASE TakenFrom(arg[r].user, arg[r].address)
      BY <1>2, <2>2, Goes DEF UpsertWallet, Answer, wallets, AtAccount, AtAddress
    <2>3. CASE ~TakenFrom(arg[r].user, arg[r].address)
      <3>1. arg' = [arg EXCEPT ![r] = arg[r]]
        BY <1>2 DEF UpsertWallet, WalletInv, WalletTypeOK
      <3>2. [address |-> arg[r].address, verified |-> arg[r].verified] \in WalletRows
        BY <2>1 DEF WalletRows, Args
      <3> QED
        BY <1>2, <2>1, <2>3, <3>1, <3>2, PairBegins DEF UpsertWallet
    <2> QED
      BY <2>2, <2>3
  <1>3. CASE RemoveWallet(r)
    <2>1. PICK a \in Accounts :
            /\ HasAccount(a) /\ BeginPair(a)
            /\ userWallet' = [userWallet EXCEPT ![a] = NoRecord]
            /\ arg' = [arg EXCEPT ![r] = [NoArg EXCEPT !.user = a]]
      BY <1>3 DEF RemoveWallet
    <2>2. [NoArg EXCEPT !.user = a] \in Args
      BY DEF Args, NoArg
    <2>3. /\ [NoArg EXCEPT !.user = a].user = a
          /\ [NoArg EXCEPT !.user = a].address = NoAddress
      BY DEF NoArg
    <2> HIDE DEF NoArg
    <2> QED
      BY <1>3, <2>1, <2>2, <2>3, PairBegins DEF RemoveWallet
  <1>4. CASE SyncUser(r)
    <2> DEFINE a == arg[r].user
               row == [user[a] EXCEPT !.wallet = arg[r].address]
    <2>1. a \in Accounts /\ user[a] \in UserRows
      BY <1>4 DEF SyncUser, WalletInv, WalletTypeOK, PlaceInv, At, AtAccount, HasAccount
    <2>2. row \in UserRows /\ row.wallet = arg[r].address
      BY <2>1 DEF UserRows, WalletInv, WalletTypeOK
    <2>3. user' = [user EXCEPT ![a] = row]
      BY <1>4 DEF SyncUser
    <2> QED
      BY <1>4, <2>1, <2>2, <2>3, PairEnds DEF SyncUser
  <1>5. CASE AssignCheck(r)
    <2>1. PICK a \in Accounts, ad \in Addresses :
            /\ HasAccount(a)
            /\ arg' = [arg EXCEPT ![r] = [NoArg EXCEPT !.user = a, !.address = ad]]
      BY <1>5 DEF AssignCheck
    <2>2. [NoArg EXCEPT !.user = a, !.address = ad] \in Args
      BY DEF Args, NoArg
    <2>3. [NoArg EXCEPT !.user = a, !.address = ad].user = a
      BY DEF NoArg
    <2> QED
      BY <1>5, <2>1, <2>2, <2>3, Enters DEF AssignCheck, AtAddress
  <1>6. CASE AssignWallet(r)
    <2> DEFINE a == arg[r].user
               row == [user[a] EXCEPT !.wallet = arg[r].address]
    <2>1. a \in Accounts /\ user[a] \in UserRows
      BY <1>6 DEF AssignWallet, WalletInv, WalletTypeOK, PlaceInv, At, AtAccount, HasAccount
    <2>2. row \in UserRows
      BY <2>1 DEF UserRows, WalletInv, WalletTypeOK
    <2>3. user' = [user EXCEPT ![a] = row]
      BY <1>6 DEF AssignWallet
    <2> QED
      BY <1>6, <2>1, <2>2, <2>3, PairEnds DEF AssignWallet
  <1>7. CASE LoginCheck(r)
    <2>1. PICK w \in Wallets :
            /\ arg' = [arg EXCEPT ![r] = [NoArg EXCEPT !.address = Lower(w)]]
            /\ Goto(r, "done") \/ Goto(r, "signup")
      BY <1>7 DEF LoginCheck, Answer
    <2>2. Lower(w) \in Addresses
      BY DEF Lower, Addresses
    <2>3. [NoArg EXCEPT !.address = Lower(w)] \in Args
      BY <2>2 DEF Args, NoArg
    <2>4. [NoArg EXCEPT !.address = Lower(w)].address = Lower(w)
      BY DEF NoArg
    <2> QED
      BY <1>7, <2>1, <2>2, <2>3, <2>4, Enters DEF LoginCheck, AtAccount, AtAddress
  <1>8. CASE SignUp(r)
    <2> DEFINE w == arg[r].address[1]
               row == [wallet |-> Lower(w), mail |-> w]
    <2>1. w \in Wallets /\ r \in Accounts
      BY <1>8 DEF SignUp, WalletInv, PlaceInv, At, AtAddress, Addresses, Accounts
    <2>2. row \in UserRows
      BY <2>1 DEF UserRows, Lower, Addresses
    <2>3. CASE user' = [user EXCEPT ![r] = row] /\ mixed' = mixed \cup {r}
      BY <1>8, <2>1, <2>2, <2>3, PairEnds DEF SignUp
    <2>4. CASE UNCHANGED <<user, mixed>>
      BY <1>8, <2>4, Goes DEF SignUp, Answer, wallets, AtAccount, AtAddress
    <2> QED
      BY <1>8, <2>3, <2>4 DEF SignUp
  <1> QED
    BY <1>1, <1>2, <1>3, <1>4, <1>5, <1>6, <1>7, <1>8
       DEF WalletStep, VerifyCheck, PatchCheck

LEMMA WalletNext == WalletInv /\ [Next]_vars => WalletInv'
  <1> SUFFICES ASSUME WalletInv, [Next]_vars PROVE WalletInv'
    OBVIOUS
  <1>1. CASE UNCHANGED <<pc, arg, wallets>>
    BY <1>1 DEF wallets, WalletInv, PlaceInv, WalletTypeOK, PairInv, At, HasAccount, Listed,
       Syncing
  <1>2. ASSUME NEW r \in Requests, FindLatest(r) PROVE WalletInv'
    <2>1. PICK u \in Accounts, op \in {"start", "connect", "create", "criteria"},
               ad \in Addresses \cup {NoAddress} :
            /\ HasAccount(u)
            /\ arg' = [arg EXCEPT ![r] = [NoArg EXCEPT !.user = u, !.address = ad]]
            /\ Goto(r, "done") \/ Goto(r, op)
      BY <1>2 DEF FindLatest, Search, Answer
    <2>2. [NoArg EXCEPT !.user = u, !.address = ad] \in Args
      BY DEF Args, NoArg
    <2>3. [NoArg EXCEPT !.user = u, !.address = ad].user = u
      BY DEF NoArg
    <2>4. PICK place \in {"done", op} : Goto(r, place)
      BY <2>1
    <2>5. place # "sync" /\ place \notin AtAddress
      BY DEF AtAddress
    <2> QED
      BY <1>2, <2>1, <2>2, <2>3, <2>4, <2>5, Enters DEF FindLatest, Search, AtAccount
  <1>3. ASSUME NEW r \in Requests, LandStep(r), ~FindLatest(r) PROVE WalletInv'
    BY <1>3, Goes
       DEF LandStep, StartRequest, ConnectWallet, CreateRequest, UpdateCriteria, SelectCheck,
           SelectPlot, EscrowCheck, RecordEscrow, AddPlot, PlotFound, SetStatus, AddListing,
           ListingCheck, EditListing, SetListing, Take, Answer, AtAccount, AtAddress, At
  <1>4. ASSUME NEW r \in Requests, ImageryStep(r), UNCHANGED <<arg, wallets>>
        PROVE  WalletInv'
    BY <1>4, Goes
       DEF ImageryStep, GetImagery, GetBatch, GetPicture, Fetch, KeepPicture, Record, RecordAs,
           KeepAnswer, Look, Answer, AtAccount, AtAddress
  <1> QED
    BY <1>1, <1>2, <1>3, <1>4, WalletStepKeeps, PairFails DEF Next, vars, Expire

-----------------------------------------------------------------------------
(* The newest request                                                      *)

LEMMA LeastElement ==
  ASSUME NEW T, T \subseteq Nat, T # {}
  PROVE  \E x \in T : \A y \in T : x <= y
  <1>1. IsWellFoundedOn(OpToRel(<, Nat), Nat)
    BY NatLessThanWellFounded
  <1>2. PICK x \in T : \A y \in T : ~(<<y, x>> \in OpToRel(<, Nat))
    BY <1>1, WFMin
  <1>3. ASSUME NEW y \in T PROVE x <= y
    <2>1. x \in Nat /\ y \in Nat
      OBVIOUS
    <2>2. ~(y < x)
      BY <1>2, <2>1 DEF OpToRel
    <2> QED
      BY <2>1, <2>2
  <1> QED
    BY <1>3

LEMMA GreatestElement ==
  ASSUME NEW n \in Nat, NEW S, S \subseteq 1..n, S # {}
  PROVE  \E x \in S : \A y \in S : y <= x
  <1> DEFINE T == {k \in Nat : n - k \in S}
  <1>1. T # {}
    <2>1. PICK i \in S : TRUE
      OBVIOUS
    <2>2. n - i \in Nat /\ n - (n - i) = i
      OBVIOUS
    <2> QED
      BY <2>1, <2>2
  <1>2. PICK k \in T : \A l \in T : k <= l
    BY <1>1, LeastElement, T \subseteq Nat
  <1>3. ASSUME NEW y \in S PROVE y <= n - k
    <2>1. y \in Nat /\ n - y \in Nat /\ n - (n - y) = y
      OBVIOUS
    <2>2. k <= n - y
      BY <1>2, <2>1
    <2> QED
      BY <2>1, <2>2
  <1> QED
    BY <1>2, <1>3

LEMMA LatestIsMine ==
  ASSUME LandTypeOK, NEW u
  PROVE  /\ Latest(u) = 0 => Mine(u) = {}
         /\ Latest(u) # 0 => Latest(u) \in Mine(u)
  <1>1. Len(land) \in Nat /\ DOMAIN land = 1..Len(land)
    BY DEF LandTypeOK
  <1>2. Mine(u) \subseteq 1..Len(land)
    BY <1>1 DEF Mine
  <1>3. CASE Mine(u) = {}
    BY <1>3 DEF Latest, Mine
  <1>4. CASE Mine(u) # {}
    <2>1. \E i \in Mine(u) : \A j \in Mine(u) : j <= i
      BY <1>1, <1>2, <1>4, GreatestElement
    <2>2. Latest(u) = CHOOSE i \in Mine(u) : \A j \in Mine(u) : j <= i
      BY <1>4 DEF Latest, Mine
    <2>3. Latest(u) \in Mine(u)
      BY <2>1, <2>2
    <2> QED
      BY <1>2, <1>4, <2>3
  <1> QED
    BY <1>3, <1>4

-----------------------------------------------------------------------------
(* The rows of requests: one is appended, or one is written again.         *)

LEMMA NewLandIsRow == \A u \in Accounts : NewLand(u) \in Acquisitions
  BY DEF NewLand, Acquisitions, Statuses

LEMMA Appends ==
  ASSUME LandTypeOK, NEW row \in Acquisitions, row.plot = 0,
         land' = Append(land, row), UNCHANGED <<plots, listing>>
  PROVE  /\ LandTypeOK' /\ DOMAIN land \subseteq DOMAIN land'
         /\ \A u \in Accounts :
              Mine(u)' = IF u = row.user THEN Mine(u) \cup {Len(land) + 1} ELSE Mine(u)
  <1>1. /\ land' \in Seq(Acquisitions) /\ Len(land) \in Nat
        /\ DOMAIN land = 1..Len(land) /\ DOMAIN land' = 1..(Len(land) + 1)
        /\ \A i \in 1..Len(land) : land'[i] = land[i]
        /\ land'[Len(land) + 1] = row
    BY DEF LandTypeOK
  <1>2. DOMAIN land' = DOMAIN land \cup {Len(land) + 1}
    BY <1>1
  <1>3. LandTypeOK'
    BY <1>1, <1>2 DEF LandTypeOK
  <1> QED
    BY <1>1, <1>2, <1>3 DEF Mine

LEMMA Rewrites ==
  ASSUME LandTypeOK, NEW i, NEW row, land' = [land EXCEPT ![i] = row],
         UNCHANGED <<plots, listing>>,
         i \in DOMAIN land =>
           /\ row \in Acquisitions /\ row.user = land[i].user
           /\ row.plot # land[i].plot =>
                row.plot \in DOMAIN plots /\ plots[row.plot].request = i
  PROVE  LandTypeOK' /\ DOMAIN land' = DOMAIN land /\ \A u \in Accounts : Mine(u)' = Mine(u)
  <1>1. /\ Len(land) \in Nat /\ DOMAIN land = 1..Len(land)
        /\ DOMAIN land' = DOMAIN land
        /\ \A j \in DOMAIN land : land[j] \in Acquisitions
        /\ \A j \in DOMAIN land : land'[j] = IF j = i THEN row ELSE land[j]
    BY DEF LandTypeOK
  <1>2. land' \in [1..Len(land) -> Acquisitions]
    BY <1>1
  <1>3. land' \in Seq(Acquisitions)
    BY <1>1, <1>2, SeqDef
  <1>4. LandTypeOK'
    BY <1>1, <1>3 DEF LandTypeOK
  <1> QED
    BY <1>1, <1>4 DEF Mine

-----------------------------------------------------------------------------
(* How many requests a user has, and is about to have                      *)

LEMMA MineIsFinite ==
  ASSUME LandTypeOK, NEW u
  PROVE  /\ IsFiniteSet(Mine(u)) /\ Cardinality(Mine(u)) \in Nat
         /\ Len(land) + 1 \notin Mine(u)
  <1>1. Len(land) \in Nat /\ Mine(u) \subseteq 1..Len(land)
    BY DEF LandTypeOK, Mine
  <1>2. IsFiniteSet(1..Len(land))
    BY <1>1, FS_Interval
  <1> QED
    BY <1>1, <1>2, FS_Subset, FS_CardinalityType

(* Fewer handlers are about to create a request, and none was created.     *)
LEMMA CountFalls ==
  ASSUME LandInv, LandTypeOK', twins' = twins, NEW u \in Accounts,
         Mine(u)' = Mine(u), Founding(u)' \subseteq Founding(u)
  PROVE  /\ IsFiniteSet(Founding(u)')
         /\ Cardinality(Mine(u)') + Cardinality(Founding(u)') <= 1 + twins'[u]
  <1>1. /\ IsFiniteSet(Founding(u)) /\ twins[u] \in Nat
        /\ Cardinality(Mine(u)) + Cardinality(Founding(u)) <= 1 + twins[u]
    BY DEF LandInv, CountInv, HeldInv
  <1>2. /\ IsFiniteSet(Founding(u)')
        /\ Cardinality(Founding(u)') <= Cardinality(Founding(u))
    BY <1>1, FS_Subset
  <1>3. /\ Cardinality(Founding(u)) \in Nat /\ Cardinality(Founding(u)') \in Nat
        /\ Cardinality(Mine(u)) \in Nat
    BY <1>1, <1>2, FS_CardinalityType, MineIsFinite DEF LandInv
  <1> QED
    BY <1>1, <1>2, <1>3

(* One of them creates it.                                                 *)
LEMMA CountShifts ==
  ASSUME LandInv, LandTypeOK', twins' = twins, NEW u \in Accounts, NEW r \in Founding(u),
         Mine(u)' = Mine(u) \cup {Len(land) + 1}, Founding(u)' = Founding(u) \ {r}
  PROVE  /\ IsFiniteSet(Founding(u)')
         /\ Cardinality(Mine(u)') + Cardinality(Founding(u)') <= 1 + twins'[u]
  <1>1. /\ IsFiniteSet(Founding(u)) /\ twins[u] \in Nat
        /\ Cardinality(Mine(u)) + Cardinality(Founding(u)) <= 1 + twins[u]
    BY DEF LandInv, CountInv, HeldInv
  <1>2. /\ IsFiniteSet(Founding(u)')
        /\ Cardinality(Founding(u)') = Cardinality(Founding(u)) - 1
    BY <1>1, FS_RemoveElement
  <1>3. Cardinality(Mine(u)') = Cardinality(Mine(u)) + 1
    BY MineIsFinite, FS_AddElement DEF LandInv
  <1>4. Cardinality(Founding(u)) \in Nat /\ Cardinality(Mine(u)) \in Nat
    BY <1>1, FS_CardinalityType, MineIsFinite DEF LandInv
  <1> QED
    BY <1>1, <1>2, <1>3, <1>4

(* One more search found none; if others are under way that is counted.    *)
LEMMA CountRises ==
  ASSUME LandInv, NEW u \in Accounts, NEW r, Mine(u) = {}, Mine(u)' = {}, r \notin Founding(u),
         Founding(u)' = Founding(u) \cup {r},
         twins'[u] = IF Founding(u) # {} THEN twins[u] + 1 ELSE twins[u]
  PROVE  /\ IsFiniteSet(Founding(u)')
         /\ Cardinality(Mine(u)') + Cardinality(Founding(u)') <= 1 + twins'[u]
  <1>1. /\ IsFiniteSet(Founding(u)) /\ twins[u] \in Nat
        /\ Cardinality(Mine(u)) + Cardinality(Founding(u)) <= 1 + twins[u]
    BY DEF LandInv, CountInv, HeldInv
  <1>2. /\ IsFiniteSet(Founding(u)')
        /\ Cardinality(Founding(u)') = Cardinality(Founding(u)) + 1
    BY <1>1, FS_AddElement
  <1>3. Cardinality(Founding(u)) \in Nat /\ Cardinality(Mine(u)) = 0 /\ Cardinality(Mine(u)') = 0
    BY <1>1, FS_CardinalityType, FS_EmptySet
  <1>4. Founding(u) = {} => Cardinality(Founding(u)) = 0
    BY FS_EmptySet
  <1> QED
    BY <1>1, <1>2, <1>3, <1>4

-----------------------------------------------------------------------------
LEMMA LandInit == Init => LandInv
  <1> SUFFICES ASSUME Init PROVE LandInv
    OBVIOUS
  <1>0. NoHeld \in HeldRows
    BY DEF NoHeld, HeldRows, Places
  <1>1. PICK u \in People :
          \/ land = <<>> /\ plots = <<>>
          \/ /\ land = <<[NewLand(u) EXCEPT !.status = "PLOT_FOUND", !.step = "CONFIRMATION"]>>
             /\ plots = <<[request |-> 1, placed |-> TRUE]>>
    BY DEF Init, InitLand
  <1> DEFINE first == [NewLand(u) EXCEPT !.status = "PLOT_FOUND", !.step = "CONFIRMATION"]
  <1>2. first \in Acquisitions /\ first.plot = 0 /\ first.user = u
    BY DEF NewLand, Acquisitions, Statuses, Accounts
  <1>3. LandTypeOK
    <2>1. listing \in [Requests -> {NoListing} \cup
                           [where : Places, status : {"PUBLISHED", "DRAFT"}]]
      BY DEF Init, InitLand
    <2>2. CASE land = <<>> /\ plots = <<>>
      BY <2>1, <2>2 DEF LandTypeOK
    <2>3. CASE land = <<first>> /\ plots = <<[request |-> 1, placed |-> TRUE]>>
      <3>1. land \in Seq(Acquisitions) /\ DOMAIN land = {1} /\ land[1] = first
        BY <1>2, <2>3
      <3>2. plots \in Seq(PlotRows) /\ DOMAIN plots = {1} /\ plots[1].request = 1
        BY <2>3 DEF PlotRows
      <3> QED
        BY <1>2, <2>1, <3>1, <3>2 DEF LandTypeOK
    <2> QED
      BY <1>1, <2>2, <2>3
  <1>4. HeldInv
    BY <1>0 DEF Init, InitLand, HeldInv, At
  <1>5. CountInv
    <2> SUFFICES ASSUME NEW v \in Accounts
                 PROVE /\ IsFiniteSet(Founding(v))
                       /\ Cardinality(Mine(v)) + Cardinality(Founding(v)) <= 1 + twins[v]
      BY DEF CountInv
    <2>1. Founding(v) = {} /\ twins[v] = 0
      BY DEF Init, InitLand, Founding
    <2>2. Mine(v) = {} \/ Mine(v) = {1}
      BY <1>1 DEF Mine
    <2>3. Cardinality(Mine(v)) \in {0, 1}
      BY <2>2, FS_EmptySet, FS_Singleton
    <2> QED
      BY <2>1, <2>3, FS_EmptySet
  <1> QED
    BY <1>3, <1>4, <1>5 DEF LandInv

(* A handler that goes on, with what it holds, to a place where none of a  *)
(* first request is created.                                               *)
LEMMA HeldKeeps ==
  ASSUME WalletInv, LandInv, NEW r \in Requests, NEW place, Goto(r, place),
         place \notin {"start", "connect", "create", "criteria"},
         \A s \in Requests \ {r} : arg'[s] = arg[s], twins' = twins,
         held' \in [Requests -> HeldRows], \A s \in Requests \ {r} : held'[s] = held[s],
         DOMAIN land \subseteq DOMAIN land', DOMAIN plots \subseteq DOMAIN plots',
         \A p \in DOMAIN plots : plots'[p] = plots[p],
         place = "select" => /\ held'[r].row \in DOMAIN land /\ held'[r].plot \in DOMAIN plots
                             /\ plots[held'[r].plot].request = held'[r].row
  PROVE  HeldInv' /\ \A u \in Accounts : Founding(u)' = Founding(u) \ {r}
  <1>1. \A s \in Requests : pc'[s] = IF s = r THEN place ELSE pc[s]
    BY DEF WalletInv, PlaceInv, Goto
  <1>2. HeldInv'
    <2>1. held' \in [Requests -> HeldRows] /\ twins' \in [Accounts -> Nat]
      BY DEF LandInv, HeldInv
    <2>2. ASSUME NEW s \in Requests
          PROVE  /\ At(s, {"start"})' => held'[s].row = 0
                 /\ At(s, {"connect", "create", "criteria"})'
                      => held'[s].row \in {0} \cup DOMAIN land'
                 /\ At(s, {"select"})' => /\ held'[s].row \in DOMAIN land'
                                         /\ held'[s].plot \in DOMAIN plots'
                                         /\ plots'[held'[s].plot].request = held'[s].row
      <3>1. CASE s = r
        BY <1>1, <3>1 DEF At
      <3>2. CASE s # r
        BY <1>1, <3>2 DEF At, LandInv, HeldInv
      <3> QED
        BY <3>1, <3>2
    <2> QED
      BY <2>1, <2>2 DEF HeldInv
  <1>3. \A u \in Accounts : Founding(u)' = Founding(u) \ {r}
    BY <1>1 DEF Founding
  <1> QED
    BY <1>2, <1>3

(* ... and which creates none.                                             *)
LEMMA LandKeeps ==
  ASSUME WalletInv, LandInv, LandTypeOK', NEW r \in Requests, NEW place, Goto(r, place),
         place \notin {"start", "connect", "create", "criteria"},
         \A s \in Requests \ {r} : arg'[s] = arg[s], twins' = twins,
         held' \in [Requests -> HeldRows], \A s \in Requests \ {r} : held'[s] = held[s],
         DOMAIN land' = DOMAIN land, \A u \in Accounts : Mine(u)' = Mine(u),
         DOMAIN plots \subseteq DOMAIN plots', \A p \in DOMAIN plots : plots'[p] = plots[p],
         place = "select" => /\ held'[r].row \in DOMAIN land /\ held'[r].plot \in DOMAIN plots
                             /\ plots[held'[r].plot].request = held'[r].row
  PROVE  LandInv'
  <1>1. HeldInv' /\ \A u \in Accounts : Founding(u)' = Founding(u) \ {r}
    BY HeldKeeps
  <1>2. CountInv'
    BY <1>1, CountFalls DEF CountInv
  <1> QED
    BY <1>1, <1>2 DEF LandInv

(* A handler that creates a first request.                                 *)
LEMMA LandFounds ==
  ASSUME WalletInv, LandInv, NEW r \in Requests, NEW place, Goto(r, place),
         place \notin {"start", "connect", "create", "criteria", "select"},
         At(r, {"start", "connect", "create"}), held[r].row = 0,
         NEW row \in Acquisitions, row.plot = 0, row.user = arg[r].user,
         land' = Append(land, row), UNCHANGED <<arg, held, plots, listing, twins>>
  PROVE  LandInv'
  <1>1. /\ LandTypeOK' /\ DOMAIN land \subseteq DOMAIN land'
        /\ \A u \in Accounts :
             Mine(u)' = IF u = row.user THEN Mine(u) \cup {Len(land) + 1} ELSE Mine(u)
    BY Appends DEF LandInv
  <1>2. HeldInv' /\ \A u \in Accounts : Founding(u)' = Founding(u) \ {r}
    BY <1>1, HeldKeeps DEF LandInv, HeldInv
  <1>3. r \in Founding(row.user)
    BY DEF Founding, At
  <1>4. CountInv'
    <2> SUFFICES ASSUME NEW u \in Accounts
                 PROVE /\ IsFiniteSet(Founding(u)')
                       /\ Cardinality(Mine(u)') + Cardinality(Founding(u)') <= 1 + twins'[u]
      BY DEF CountInv
    <2>1. CASE u = row.user
      BY <1>1, <1>2, <1>3, <2>1, CountShifts
    <2>2. CASE u # row.user
      BY <1>1, <1>2, <2>2, CountFalls
    <2> QED
      BY <2>1, <2>2
  <1> QED
    BY <1>1, <1>2, <1>4 DEF LandInv

(* A search: of a user without requests it is counted if it overlaps.      *)
LEMMA LandSearches ==
  ASSUME WalletInv, LandInv, NEW r \in Requests, FindLatest(r)
  PROVE  LandInv'
  <1> DEFINE newest == [v \in Accounts |-> Latest(v)]
  <1>0. Search(r, newest) /\ \A v \in Accounts : newest[v] = Latest(v)
    BY DEF FindLatest
  <1> HIDE DEF newest
  <1>1. PICK u \in Accounts, op \in {"start", "connect", "create", "criteria"},
             ad \in Addresses \cup {NoAddress} :
          /\ arg' = [arg EXCEPT ![r] = [NoArg EXCEPT !.user = u, !.address = ad]]
          /\ held' = [held EXCEPT ![r] = [NoHeld EXCEPT
                       !.row = newest[u],
                       !.wallet = IF newest[u] = 0 THEN NoAddress ELSE land[newest[u]].wallet]]
          /\ twins' = [twins EXCEPT ![u] =
                IF newest[u] = 0 /\ op # "criteria" /\ Founding(u) # {} THEN @ + 1 ELSE @]
          /\ IF (op = "start" /\ newest[u] # 0) \/ (op = "criteria" /\ newest[u] = 0)
             THEN Answer(r) ELSE Goto(r, op)
    BY <1>0 DEF Search
  <1>2. pc[r] = "idle" /\ UNCHANGED <<wallets, land, plots, listing>>
    BY <1>0 DEF Search
  <1>3. /\ newest[u] = 0 => Mine(u) = {}
        /\ newest[u] # 0 => newest[u] \in DOMAIN land
    BY <1>0, LatestIsMine DEF LandInv, Mine
  <1>4. PICK place : Goto(r, place) /\ place = IF (op = "start" /\ newest[u] # 0) \/
                                                 (op = "criteria" /\ newest[u] = 0)
                                              THEN "done" ELSE op
    BY <1>1 DEF Answer
  <1>5. \A s \in Requests : pc'[s] = IF s = r THEN place ELSE pc[s]
    BY <1>4 DEF WalletInv, PlaceInv, Goto
  <1>6. /\ arg'[r].user = u /\ held'[r].row = newest[u]
        /\ \A s \in Requests \ {r} : arg'[s] = arg[s] /\ held'[s] = held[s]
        /\ held' \in [Requests -> HeldRows]
    <2>0. \A j \in DOMAIN land : land[j] \in Acquisitions /\ j \in Nat
      BY DEF LandInv, LandTypeOK
    <2>1. newest[u] # 0 => land[newest[u]].wallet \in Addresses \cup {NoAddress}
      BY <1>3, <2>0 DEF Acquisitions
    <2>2. newest[u] \in Nat
      BY <1>3, <2>0
    <2>3. [NoHeld EXCEPT !.row = newest[u],
             !.wallet = IF newest[u] = 0 THEN NoAddress ELSE land[newest[u]].wallet] \in HeldRows
      BY <2>1, <2>2 DEF NoHeld, HeldRows, Places
    <2> QED
      BY <1>1, <2>3 DEF NoArg, NoHeld, LandInv, HeldInv, WalletInv, WalletTypeOK
  <1>7. LandTypeOK'
    BY <1>2 DEF LandInv, LandTypeOK
  <1>8. HeldInv'
    <2>1. twins' \in [Accounts -> Nat]
      BY <1>1 DEF LandInv, HeldInv
    <2> QED
      BY <1>2, <1>3, <1>4, <1>5, <1>6, <2>1 DEF LandInv, HeldInv, At
  <1>9. CountInv'
    <2>1. \A v \in Accounts : /\ Mine(v)' = Mine(v)
                              /\ v # u => Founding(v)' = Founding(v) /\ twins'[v] = twins[v]
      BY <1>1, <1>2, <1>5, <1>6 DEF Mine, Founding, LandInv, HeldInv
    <2>2. r \notin Founding(u)
      BY <1>2 DEF Founding
    <2>3. CASE newest[u] = 0 /\ op # "criteria"
      <3>1. Founding(u)' = Founding(u) \cup {r}
        BY <1>4, <1>5, <1>6, <2>3 DEF Founding
      <3>2. twins'[u] = IF Founding(u) # {} THEN twins[u] + 1 ELSE twins[u]
        BY <1>1, <2>3 DEF LandInv, HeldInv
      <3> QED
        BY <1>3, <2>1, <2>2, <2>3, <3>1, <3>2, CountRises DEF LandInv, CountInv
    <2>4. CASE ~(newest[u] = 0 /\ op # "criteria")
      <3>1. Founding(u)' = Founding(u)
        <4>1. r \notin Founding(u)'
          BY <1>4, <1>5, <1>6, <2>4 DEF Founding
        <4>2. \A s \in Requests \ {r} : s \in Founding(u)' <=> s \in Founding(u)
          BY <1>5, <1>6 DEF Founding
        <4>3. Founding(u) \subseteq Requests /\ Founding(u)' \subseteq Requests
          BY DEF Founding
        <4> QED
          BY <2>2, <4>1, <4>2, <4>3
      <3>2. twins'[u] = twins[u]
        BY <1>1, <2>4 DEF LandInv, HeldInv
      <3> QED
        BY <2>1, <3>1, <3>2 DEF LandInv, CountInv
    <2> QED
      BY <2>3, <2>4
  <1> QED
    BY <1>7, <1>8, <1>9 DEF LandInv

(* The steps of a search that found none or one.                           *)
LEMMA LandWrites ==
  ASSUME WalletInv, LandInv, NEW r \in Requests,
         StartRequest(r) \/ ConnectWallet(r) \/ CreateRequest(r) \/ UpdateCriteria(r)
  PROVE  LandInv'
  <1> DEFINE i == held[r].row
             u == arg[r].user
  <1>1. At(r, {"start", "connect", "create", "criteria"})
    BY DEF StartRequest, ConnectWallet, CreateRequest, UpdateCriteria, At
  <1>2. /\ u \in Accounts /\ NewLand(u) \in Acquisitions
        /\ NewLand(u).plot = 0 /\ NewLand(u).user = u
        /\ arg[r].address \in Addresses \cup {NoAddress}
        /\ held[r].wallet \in Addresses \cup {NoAddress} /\ i \in Nat
        /\ i # 0 => i \in DOMAIN land /\ land[i] \in Acquisitions
    <2>1. u \in Accounts /\ arg[r].address \in Addresses \cup {NoAddress}
      BY <1>1 DEF WalletInv, PlaceInv, At, AtAccount, WalletTypeOK
    <2>2. held[r] \in HeldRows /\ i \in {0} \cup DOMAIN land
      BY <1>1 DEF LandInv, HeldInv, At
    <2>3. \A j \in DOMAIN land : land[j] \in Acquisitions
      BY DEF LandInv, LandTypeOK
    <2>4. held[r].wallet \in Addresses \cup {NoAddress} /\ i \in Nat
      BY <2>2 DEF HeldRows
    <2> QED
      BY <2>1, <2>2, <2>3, <2>4, NewLandIsRow DEF NewLand
  <1>3. held \in [Requests -> HeldRows]
    BY DEF LandInv, HeldInv
  <1> HIDE DEF i, u
  <1>4. CASE StartRequest(r)
    <2>1. i = 0
      BY <1>4 DEF StartRequest, LandInv, HeldInv, At, i
    <2> QED
      BY <1>2, <1>4, <2>1, LandFounds DEF StartRequest, Answer, At, i, u
  <1>5. CASE ConnectWallet(r)
    <2>1. CASE i = 0
      <3> DEFINE row == [NewLand(u) EXCEPT !.wallet = arg[r].address]
      <3>1. row \in Acquisitions /\ row.plot = 0 /\ row.user = u
        BY <1>2 DEF Acquisitions
      <3>2. land' = Append(land, row)
        BY <1>5, <2>1 DEF ConnectWallet, i, u
      <3> QED
        BY <1>5, <2>1, <3>1, <3>2, LandFounds DEF ConnectWallet, At, i, u
    <2>2. CASE i # 0
      <3> DEFINE row == [land[i] EXCEPT !.wallet = arg[r].address]
      <3>1. row \in Acquisitions /\ row.plot = land[i].plot /\ row.user = land[i].user
        BY <1>2, <2>2 DEF Acquisitions
      <3>2. land' = [land EXCEPT ![i] = row]
        BY <1>5, <2>2 DEF ConnectWallet, i
      <3> HIDE DEF row
      <3>3. /\ LandTypeOK' /\ DOMAIN land' = DOMAIN land
            /\ \A v \in Accounts : Mine(v)' = Mine(v)
        BY <1>5, <3>1, <3>2, Rewrites DEF ConnectWallet, LandInv
      <3> QED
        BY <1>3, <1>5, <3>3, LandKeeps DEF ConnectWallet
    <2> QED
      BY <2>1, <2>2
  <1>6. CASE CreateRequest(r)
    <2> DEFINE base == IF i = 0 THEN NewLand(u) ELSE land[i]
               wallet == IF arg[r].address = NoAddress THEN held[r].wallet ELSE arg[r].address
    <2>1. PICK c \in Criteria :
            LET row == [base EXCEPT !.wallet = wallet, !.criteria = c,
                                    !.step = "CONFIRMATION", !.status = "REQUEST_CREATED"]
            IN land' = IF i = 0 THEN Append(land, row) ELSE [land EXCEPT ![i] = row]
      BY <1>6 DEF CreateRequest, i, u
    <2> DEFINE row == [base EXCEPT !.wallet = wallet, !.criteria = c,
                                   !.step = "CONFIRMATION", !.status = "REQUEST_CREATED"]
    <2>2. base \in Acquisitions /\ wallet \in Addresses \cup {NoAddress}
      BY <1>2
    <2> HIDE DEF base, wallet
    <2>3. row \in Acquisitions /\ row.plot = base.plot /\ row.user = base.user
      BY <2>2 DEF Acquisitions, Statuses
    <2>4. land' = IF i = 0 THEN Append(land, row) ELSE [land EXCEPT ![i] = row]
      BY <2>1
    <2> HIDE DEF row
    <2>5. CASE i = 0
      BY <1>2, <1>6, <2>3, <2>4, <2>5, LandFounds DEF CreateRequest, Answer, At, i, u, base
    <2>6. CASE i # 0
      <3>1. /\ LandTypeOK' /\ DOMAIN land' = DOMAIN land
            /\ \A v \in Accounts : Mine(v)' = Mine(v)
        BY <1>6, <2>3, <2>4, <2>6, Rewrites DEF CreateRequest, LandInv, base
      <3> QED
        BY <1>3, <1>6, <3>1, LandKeeps DEF CreateRequest, Answer
    <2> QED
      BY <2>5, <2>6
  <1>7. CASE UpdateCriteria(r)
    <2>1. PICK c \in Criteria : land' = [land EXCEPT ![i].criteria = c]
      BY <1>7 DEF UpdateCriteria, i
    <2> DEFINE row == [land[i] EXCEPT !.criteria = c]
    <2>2. i \in DOMAIN land => /\ row \in Acquisitions /\ row.plot = land[i].plot
                              /\ row.user = land[i].user
      <3>1. \A j \in DOMAIN land : land[j] \in Acquisitions
        BY DEF LandInv, LandTypeOK
      <3> QED
        BY <3>1 DEF Acquisitions
    <2>3. land' = [land EXCEPT ![i] = row]
      BY <2>1
    <2> HIDE DEF row
    <2>4. /\ LandTypeOK' /\ DOMAIN land' = DOMAIN land
          /\ \A v \in Accounts : Mine(v)' = Mine(v)
      BY <1>7, <2>2, <2>3, Rewrites DEF UpdateCriteria, LandInv
    <2> QED
      BY <1>3, <1>7, <2>4, LandKeeps DEF UpdateCriteria, Answer
  <1> QED
    BY <1>4, <1>5, <1>6, <1>7

(* Plots are selected, paid for and found; the status goes anywhere.       *)
LEMMA LandRewrites ==
  ASSUME WalletInv, LandInv, NEW r \in Requests, NEW i, NEW row, Answer(r),
         UNCHANGED <<arg, held, plots, listing, twins>>, land' = [land EXCEPT ![i] = row],
         i \in DOMAIN land =>
           /\ row \in Acquisitions /\ row.user = land[i].user
           /\ row.plot # land[i].plot =>
                row.plot \in DOMAIN plots /\ plots[row.plot].request = i
  PROVE  LandInv'
  <1>1. /\ LandTypeOK' /\ DOMAIN land' = DOMAIN land
        /\ \A v \in Accounts : Mine(v)' = Mine(v)
    BY Rewrites DEF LandInv
  <1>2. held \in [Requests -> HeldRows]
    BY DEF LandInv, HeldInv
  <1> QED
    BY <1>1, <1>2, LandKeeps DEF Answer

LEMMA LandStatuses ==
  ASSUME WalletInv, LandInv, NEW r \in Requests,
         SelectPlot(r) \/ RecordEscrow(r) \/ PlotFound(r) \/ SetStatus(r)
  PROVE  LandInv'
  <1>1. \A j \in DOMAIN land : land[j] \in Acquisitions
    BY DEF LandInv, LandTypeOK
  <1>2. ASSUME NEW i, NEW s \in Statuses, Answer(r),
               land' = [land EXCEPT ![i].status = s],
               UNCHANGED <<arg, held, plots, listing, twins>>
        PROVE  LandInv'
    <2> DEFINE row == [land[i] EXCEPT !.status = s]
    <2>1. i \in DOMAIN land => /\ row \in Acquisitions /\ row.user = land[i].user
                              /\ row.plot = land[i].plot
      BY <1>1 DEF Acquisitions
    <2>2. land' = [land EXCEPT ![i] = row]
      BY <1>2
    <2> HIDE DEF row
    <2> QED
      BY <1>2, <2>1, <2>2, LandRewrites
  <1>3. CASE SelectPlot(r)
    <2> DEFINE i == held[r].row
               p == held[r].plot
               row == [land[i] EXCEPT !.plot = p, !.status = "PLOT_SELECTED"]
    <2>1. i \in DOMAIN land /\ p \in DOMAIN plots /\ plots[p].request = i
      BY <1>3 DEF SelectPlot, LandInv, HeldInv, At
    <2>2. p \in Nat
      BY DEF LandInv, HeldInv, HeldRows
    <2>3. land' = [land EXCEPT ![i] = row]
      BY <1>3 DEF SelectPlot
    <2> HIDE DEF i, p
    <2>4. row \in Acquisitions /\ row.user = land[i].user /\ row.plot = p
      BY <1>1, <2>1, <2>2 DEF Acquisitions, Statuses
    <2>5. Answer(r) /\ UNCHANGED <<arg, held, plots, listing, twins>>
      BY <1>3 DEF SelectPlot
    <2> HIDE DEF row
    <2> QED
      BY <2>1, <2>3, <2>4, <2>5, LandRewrites
  <1>4. CASE RecordEscrow(r)
    <2> DEFINE i == held[r].row
               row == [land[i] EXCEPT !.funded = TRUE, !.status = "ESCROW_FUNDED"]
    <2>1. i \in DOMAIN land => /\ row \in Acquisitions /\ row.user = land[i].user
                              /\ row.plot = land[i].plot
      BY <1>1 DEF Acquisitions, Statuses
    <2>2. CASE land' = [land EXCEPT ![i].funded = TRUE, ![i].status = "ESCROW_FUNDED"]
      <3>1. land' = [land EXCEPT ![i] = row]
        BY <2>2
      <3> HIDE DEF row, i
      <3> QED
        BY <1>4, <2>1, <3>1, LandRewrites DEF RecordEscrow
    <2>3. CASE land' = [land EXCEPT ![i].status = "ESCROW_CREATED"]
      BY <1>2, <1>4, <2>3 DEF RecordEscrow, Statuses
    <2>4. CASE land' = land
      <3>1. land' = [land EXCEPT ![i] = land[i]]
        BY <2>4 DEF LandInv, LandTypeOK
      <3> HIDE DEF i
      <3> QED
        BY <1>1, <1>4, <3>1, LandRewrites DEF RecordEscrow
    <2> QED
      BY <1>4, <2>2, <2>3, <2>4 DEF RecordEscrow
  <1>5. CASE PlotFound(r)
    BY <1>2, <1>5 DEF PlotFound, Statuses
  <1>6. CASE SetStatus(r)
    BY <1>2, <1>6, LandAssumption DEF SetStatus
  <1> QED
    BY <1>3, <1>4, <1>5, <1>6

LEMMA HeldTaken ==
  ASSUME LandInv, NEW r \in Requests, NEW i \in Nat, NEW p \in Nat, NEW place, Take(r, i, p, place)
  PROVE  /\ held' \in [Requests -> HeldRows] /\ held'[r].row = i /\ held'[r].plot = p
         /\ \A s \in Requests \ {r} : held'[s] = held[s]
  <1>1. /\ [NoHeld EXCEPT !.row = i, !.plot = p] \in HeldRows
        /\ [NoHeld EXCEPT !.row = i, !.plot = p].row = i
        /\ [NoHeld EXCEPT !.row = i, !.plot = p].plot = p
    BY DEF NoHeld, HeldRows, Places
  <1> QED
    BY <1>1 DEF Take, LandInv, HeldInv

(* What is selected, paid for or uploaded is looked up first.              *)
LEMMA LandTakes ==
  ASSUME WalletInv, LandInv, NEW r \in Requests, SelectCheck(r) \/ EscrowCheck(r) \/ AddPlot(r)
  PROVE  LandInv'
  <1>1. /\ Len(land) \in Nat /\ DOMAIN land = 1..Len(land)
        /\ Len(plots) \in Nat /\ DOMAIN plots = 1..Len(plots)
        /\ \A p \in DOMAIN plots : plots[p].request \in DOMAIN land
    BY DEF LandInv, LandTypeOK
  <1>2. CASE SelectCheck(r)
    <2>1. PICK p \in DOMAIN plots : Take(r, plots[p].request, p, "select")
      BY <1>2 DEF SelectCheck
    <2>2. LandTypeOK'
      BY <1>2 DEF SelectCheck, landRows, LandInv, LandTypeOK
    <2>3. plots[p].request \in Nat /\ p \in Nat
      BY <1>1
    <2>4. /\ held' \in [Requests -> HeldRows]
          /\ held'[r].row = plots[p].request /\ held'[r].plot = p
          /\ \A s \in Requests \ {r} : held'[s] = held[s]
      BY <2>1, <2>3, HeldTaken
    <2> QED
      BY <1>1, <1>2, <2>1, <2>2, <2>4, LandKeeps DEF SelectCheck, landRows, Take, Mine
  <1>3. CASE EscrowCheck(r)
    <2>1. PICK i \in DOMAIN land : Take(r, i, 0, "escrow")
      BY <1>3 DEF EscrowCheck
    <2>2. LandTypeOK'
      BY <1>3 DEF EscrowCheck, landRows, LandInv, LandTypeOK
    <2>3. /\ held' \in [Requests -> HeldRows]
          /\ \A s \in Requests \ {r} : held'[s] = held[s]
      BY <1>1, <2>1, HeldTaken
    <2> QED
      BY <1>3, <2>1, <2>2, <2>3, LandKeeps DEF EscrowCheck, landRows, Take, Mine
  <1>4. CASE AddPlot(r)
    <2>1. PICK i \in DOMAIN land, placed \in BOOLEAN :
            /\ plots' = Append(plots, [request |-> i, placed |-> placed])
            /\ Take(r, i, 0, "found")
      BY <1>4 DEF AddPlot
    <2> DEFINE row == [request |-> i, placed |-> placed]
    <2>2. row \in PlotRows /\ row.request = i
      BY <1>1 DEF PlotRows
    <2> HIDE DEF row
    <2>3. /\ plots' \in Seq(PlotRows) /\ DOMAIN plots' = DOMAIN plots \cup {Len(plots) + 1}
          /\ plots'[Len(plots) + 1] = row
          /\ \A p \in DOMAIN plots : plots'[p] = plots[p]
      BY <1>1, <2>1, <2>2 DEF LandInv, LandTypeOK, row
    <2>4. land' = land /\ listing' = listing
      BY <1>4 DEF AddPlot
    <2>5. LandTypeOK'
      BY <2>2, <2>3, <2>4 DEF LandInv, LandTypeOK
    <2>6. /\ held' \in [Requests -> HeldRows]
          /\ \A s \in Requests \ {r} : held'[s] = held[s]
      BY <1>1, <2>1, HeldTaken
    <2> QED
      BY <1>4, <2>1, <2>3, <2>5, <2>6, LandKeeps DEF AddPlot, Take, Mine
  <1> QED
    BY <1>2, <1>3, <1>4

LEMMA LandLists ==
  ASSUME WalletInv, LandInv, NEW r \in Requests,
         AddListing(r) \/ ListingCheck(r) \/ EditListing(r) \/ SetListing(r)
  PROVE  LandInv'
  <1> DEFINE Listings == [where : Places, status : {"PUBLISHED", "DRAFT"}]
  <1>1. listing \in [Requests -> {NoListing} \cup Listings] /\ held \in [Requests -> HeldRows]
    BY DEF LandInv, LandTypeOK, HeldInv
  <1>2. UNCHANGED <<land, plots, twins, arg>>
    BY DEF AddListing, ListingCheck, EditListing, SetListing, landRows
  <1>3. listing' \in [Requests -> {NoListing} \cup Listings]
    <2>1. CASE AddListing(r)
      <3>1. PICK where \in Places, s \in {"PUBLISHED", "DRAFT"} :
              listing' = [listing EXCEPT ![r] = [where |-> where, status |-> s]]
        BY <2>1 DEF AddListing
      <3> QED
        BY <1>1, <3>1
    <2>2. CASE ListingCheck(r)
      BY <1>1, <2>2 DEF ListingCheck, landRows
    <2>3. CASE EditListing(r)
      <3> DEFINE l == held[r].listing
      <3>1. listing' = [listing EXCEPT ![l] = IF @ = NoListing THEN @
                                              ELSE [@ EXCEPT !.where = held[r].where]]
        BY <2>3 DEF EditListing
      <3>2. held[r].where \in Places
        BY <1>1 DEF HeldRows
      <3> QED
        BY <1>1, <3>1, <3>2
    <2>4. CASE SetListing(r)
      BY <1>1, <2>4 DEF SetListing
    <2> QED
      BY <2>1, <2>2, <2>3, <2>4
  <1>4. held' \in [Requests -> HeldRows] /\ \A s \in Requests \ {r} : held'[s] = held[s]
    <2>1. CASE UNCHANGED held
      BY <1>1, <2>1
    <2>2. CASE ListingCheck(r)
      <3>1. PICK l \in Requests, n \in {1, 2}, d \in Degrees :
              /\ listing[l] # NoListing
              /\ held' = [held EXCEPT ![r] = [NoHeld EXCEPT
                            !.listing = l, !.where = [listing[l].where EXCEPT ![n] = d]]]
        BY <2>2 DEF ListingCheck
      <3>2. listing[l].where \in Places
        BY <1>1, <3>1
      <3>3. [listing[l].where EXCEPT ![n] = d] \in Places
        BY <3>2 DEF Places
      <3>4. [NoHeld EXCEPT !.listing = l, !.where = [listing[l].where EXCEPT ![n] = d]]
              \in HeldRows
        BY <3>3 DEF NoHeld, HeldRows
      <3> QED
        BY <1>1, <3>1, <3>4
    <2> QED
      BY <2>1, <2>2 DEF AddListing, EditListing, SetListing
  <1>5. LandTypeOK'
    BY <1>2, <1>3 DEF LandInv, LandTypeOK
  <1>6. PICK place \in {"list", "done"} : Goto(r, place)
    BY DEF AddListing, ListingCheck, EditListing, SetListing, Answer
  <1> QED
    BY <1>2, <1>4, <1>5, <1>6, LandKeeps DEF Mine

(* Other handlers, and failures.                                           *)
LEMMA LandAside ==
  ASSUME WalletInv, LandInv, NEW r \in Requests, NEW place, Goto(r, place),
         place \notin {"start", "connect", "create", "criteria", "select"},
         \A s \in Requests \ {r} : arg'[s] = arg[s], UNCHANGED LandRows
  PROVE  LandInv'
  <1>1. LandTypeOK' /\ held \in [Requests -> HeldRows]
    BY DEF LandInv, LandTypeOK, HeldInv, LandRows, landRows
  <1> QED
    BY <1>1, LandKeeps DEF LandRows, landRows, Mine

LEMMA LandNext == WalletInv /\ LandInv /\ [Next]_vars => LandInv'
  <1> SUFFICES ASSUME WalletInv, LandInv, [Next]_vars PROVE LandInv'
    OBVIOUS
  <1>1. CASE UNCHANGED <<pc, arg, LandRows>>
    BY <1>1 DEF LandRows, landRows, LandInv, LandTypeOK, HeldInv, CountInv, Mine, Founding, At
  <1>2. ASSUME NEW r \in Requests, WalletStep(r) \/ AssignWallet(r), UNCHANGED LandRows
        PROVE  LandInv'
    <2>1. \A s \in Requests \ {r} : arg'[s] = arg[s]
      BY <1>2 DEF WalletInv, WalletTypeOK, WalletStep, VerifyCheck, PatchCheck, WalletCheck,
         UpsertWallet, RemoveWallet, SyncUser, AssignCheck, AssignWallet, LoginCheck, SignUp
    <2>2. PICK place \in {"upsert", "sync", "assign", "signup", "done"} : Goto(r, place)
      BY <1>2 DEF WalletStep, VerifyCheck, PatchCheck, WalletCheck, UpsertWallet, RemoveWallet,
         SyncUser, AssignCheck, AssignWallet, LoginCheck, SignUp, Answer
    <2> QED
      BY <1>2, <2>1, <2>2, LandAside
  <1>3. ASSUME NEW r \in Requests, LandStep(r) PROVE LandInv'
    BY <1>3, LandSearches, LandWrites, LandTakes, LandStatuses, LandLists DEF LandStep
  <1>4. ASSUME NEW r \in Requests, ImageryStep(r), UNCHANGED <<arg, LandRows>> PROVE LandInv'
    <2>1. PICK place \in {"fetch", "fetch image", "keep", "keep image", "record",
                          "record image", "answer", "done"} : Goto(r, place)
      BY <1>4 DEF ImageryStep, GetImagery, GetBatch, GetPicture, Fetch, KeepPicture, Record,
         RecordAs, KeepAnswer, Look, Answer
    <2> QED
      BY <1>4, <2>1, LandAside
  <1>5. ASSUME NEW r \in Requests, Answer(r), WalletFails(r), UNCHANGED LandRows PROVE LandInv'
    BY <1>5, LandAside DEF Answer, WalletFails
  <1> QED
    BY <1>1, <1>2, <1>3, <1>4, <1>5 DEF Next, vars, Expire, LandRows

-----------------------------------------------------------------------------
(* Pictures                                                                *)

LEMMA ImageryInit == Init => ImageryInv
  BY DEF Init, InitImagery, ImageryInv, ImageryTypeOK, SeenInv, ImageryIsRecorded, NotSeen,
         At, AtPicture

(* Plots are not deleted.                                                  *)
LEMMA PlotsStay == LandInv /\ [Next]_vars => DOMAIN plots \subseteq DOMAIN plots'
  <1> SUFFICES ASSUME LandInv, [Next]_vars PROVE DOMAIN plots \subseteq DOMAIN plots'
    OBVIOUS
  <1>1. plots \in Seq(PlotRows)
    BY DEF LandInv, LandTypeOK
  <1>2. CASE UNCHANGED plots
    BY <1>2
  <1>3. ASSUME NEW r \in Requests, LandStep(r) PROVE DOMAIN plots \subseteq DOMAIN plots'
    <2>1. CASE AddPlot(r)
      <3>1. PICK row : plots' = Append(plots, row)
        BY <2>1 DEF AddPlot
      <3> QED
        BY <1>1, <3>1
    <2> QED
      BY <1>3, <2>1
         DEF LandStep, FindLatest, Search, StartRequest, ConnectWallet, CreateRequest,
             UpdateCriteria, SelectCheck, SelectPlot, EscrowCheck, RecordEscrow, PlotFound,
             SetStatus, AddListing, ListingCheck, EditListing, SetListing, landRows
  <1> QED
    BY <1>2, <1>3 DEF Next, vars, LandRows, landRows, Expire

(* Handlers of other things, and a step that changes nothing.              *)
LEMMA PicturesAside ==
  ASSUME WalletInv, LandInv, ImageryInv, [Next]_vars, UNCHANGED ImageryRows,
         \A r \in Requests : At(r, AtPicture)' => pc'[r] = pc[r],
         \A r \in Requests : At(r, {"record", "record image"}) => pc'[r] = pc[r]
  PROVE  ImageryInv'
  <1>1. DOMAIN plots \subseteq DOMAIN plots'
    BY PlotsStay
  <1>2. ImageryTypeOK'
    BY <1>1 DEF ImageryInv, ImageryTypeOK, ImageryRows, imagery
  <1>3. SeenInv'
    BY <1>1 DEF ImageryInv, SeenInv, ImageryRows, imagery, At, AtPicture
  <1>4. ImageryIsRecorded'
    BY DEF ImageryInv, ImageryTypeOK, ImageryIsRecorded, ImageryRows, imagery, At
  <1> QED
    BY <1>2, <1>3, <1>4 DEF ImageryInv

LEMMA PlotNumbers ==
  ASSUME LandInv
  PROVE  \A p \in DOMAIN plots : p \in Nat
  <1>1. Len(plots) \in Nat /\ DOMAIN plots = 1..Len(plots)
    BY DEF LandInv, LandTypeOK
  <1> QED
    BY <1>1

LEMMA TruthValue == \A p, S : \E b \in BOOLEAN : b = (p \in S)
  <1> SUFFICES ASSUME NEW p, NEW S PROVE \E b \in BOOLEAN : b = (p \in S)
    OBVIOUS
  <1>1. (p \in S) \in BOOLEAN
    BY SMT
  <1> QED
    BY <1>1

LEMMA PicturesStep ==
  ASSUME WalletInv, LandInv, ImageryInv, NEW r \in Requests, ImageryStep(r), UNCHANGED plots
  PROVE  ImageryInv'
  <1> USE DEF ImageryInv
  <1>0. DOMAIN pc = Requests
    BY DEF WalletInv, PlaceInv
  <1>1. /\ seen \in [Requests -> [plot : Nat, url : BOOLEAN]]
        /\ picture \subseteq DOMAIN plots /\ recorded \subseteq DOMAIN plots
        /\ answer \subseteq (DOMAIN plots) \X BOOLEAN
        /\ \A s \in Requests : seen[s].plot \in {0} \cup DOMAIN plots
    BY DEF SeenInv, ImageryTypeOK
  <1>2. ASSUME NEW p \in DOMAIN plots, p \in Nat, NEW url \in BOOLEAN, url => p \in recorded,
               NEW place, pc[r] = "idle", Look(r, p, url, place),
               place \notin {"record", "record image"}, UNCHANGED imagery
        PROVE  ImageryInv'
    <2>1. \A s \in Requests : pc'[s] = IF s = r THEN place ELSE pc[s]
      BY <1>0, <1>2 DEF Look, Goto
    <2>2. /\ seen' \in [Requests -> [plot : Nat, url : BOOLEAN]]
          /\ seen'[r].plot = p /\ seen'[r].url = url
          /\ \A s \in Requests \ {r} : seen'[s] = seen[s]
      BY <1>1, <1>2 DEF Look
    <2>3. UNCHANGED <<picture, recorded, answer, unrecorded>>
      BY <1>2 DEF imagery
    <2>4. \A s \in Requests : seen'[s].plot \in {0} \cup DOMAIN plots
      BY <1>1, <1>2, <2>2
    <2>5. ImageryTypeOK'
      BY <1>1, <2>3, <2>4 DEF ImageryTypeOK
    <2>6. SeenInv'
      BY <1>2, <2>1, <2>2, <2>3 DEF SeenInv, At, AtPicture
    <2>7. ImageryIsRecorded'
      BY <1>2, <2>1, <2>2, <2>3 DEF ImageryIsRecorded
    <2> QED
      BY <2>5, <2>6, <2>7
  <1>3. CASE GetImagery(r) \/ GetBatch(r) \/ GetPicture(r)
    <2>1. PICK p \in DOMAIN plots, place \in {"fetch", "fetch image", "answer"} :
            Look(r, p, p \in recorded, place)
      BY <1>3 DEF GetImagery, GetBatch, GetPicture
    <2>2. p \in Nat
      BY <2>1, PlotNumbers
    <2>3. pc[r] = "idle" /\ UNCHANGED imagery
      BY <1>3 DEF GetImagery, GetBatch, GetPicture
    <2>4. PICK url \in BOOLEAN : url = (p \in recorded)
      BY TruthValue
    <2> QED
      BY <1>2, <2>1, <2>2, <2>3, <2>4
  <1>4. ASSUME NEW place, Goto(r, place), At(r, AtPicture), place \in AtPicture \cup {"done"},
               pc[r] \in {"record", "record image"} => seen[r].plot \in recorded',
               seen' \in [Requests -> [plot : Nat, url : BOOLEAN]],
               \A s \in Requests : seen'[s].plot = seen[s].plot,
               \A s \in Requests \ {r} : seen'[s].url = seen[s].url,
               seen'[r].url => seen[r].url \/ seen[r].plot \in recorded',
               picture' \subseteq picture \cup {seen[r].plot},
               seen[r].plot \in picture' =>
                 \/ seen[r].plot \in picture \/ place \in {"record", "record image"},
               recorded \subseteq recorded', recorded' \subseteq recorded \cup {seen[r].plot},
               unrecorded' = unrecorded,
               answer' \subseteq answer \cup {<<seen[r].plot, seen[r].url>>}
        PROVE  ImageryInv'
    <2>1. \A s \in Requests : pc'[s] = IF s = r THEN place ELSE pc[s]
      BY <1>0, <1>4 DEF Goto
    <2>2. seen[r].plot \in DOMAIN plots /\ (seen[r].url => seen[r].plot \in recorded)
      BY <1>4 DEF SeenInv
    <2>3. ImageryTypeOK'
      <3>1. <<seen[r].plot, seen[r].url>> \in (DOMAIN plots) \X BOOLEAN
        BY <1>1, <2>2
      <3> QED
        BY <1>1, <1>4, <2>2, <3>1 DEF ImageryTypeOK
    <2>4. SeenInv'
      BY <1>4, <2>1, <2>2 DEF SeenInv, At
    <2>5. ImageryIsRecorded'
      <3> SUFFICES ASSUME NEW p \in DOMAIN plots
                   PROVE  /\ <<p, TRUE>> \in answer' => p \in recorded'
                          /\ p \in picture' =>
                               \/ p \in recorded' \cup unrecorded'
                               \/ \E s \in Requests : /\ seen'[s].plot = p
                                                      /\ pc'[s] \in {"record", "record image"}
        BY DEF ImageryIsRecorded
      <3>1. <<p, TRUE>> \in answer' => p \in recorded'
        <4>1. CASE <<p, TRUE>> \in answer
          BY <1>4, <4>1 DEF ImageryIsRecorded
        <4>2. CASE <<p, TRUE>> = <<seen[r].plot, seen[r].url>>
          BY <1>4, <2>2, <4>2
        <4> QED
          BY <1>4, <4>1, <4>2
      <3>2. ASSUME p \in picture'
            PROVE  \/ p \in recorded' \cup unrecorded'
                   \/ \E s \in Requests : /\ seen'[s].plot = p
                                          /\ pc'[s] \in {"record", "record image"}
        <4>1. CASE p \in picture
          <5>1. CASE p \in recorded \cup unrecorded
            BY <1>4, <5>1
          <5>2. ASSUME NEW s \in Requests, seen[s].plot = p,
                       pc[s] \in {"record", "record image"}
                PROVE  \/ p \in recorded'
                       \/ seen'[s].plot = p /\ pc'[s] \in {"record", "record image"}
            BY <1>4, <2>1, <5>2
          <5> QED
            BY <4>1, <5>1, <5>2 DEF ImageryIsRecorded
        <4>2. CASE p \notin picture
          BY <1>4, <2>1, <3>2, <4>2
        <4> QED
          BY <4>1, <4>2
      <3> QED
        BY <3>1, <3>2
    <2> QED
      BY <2>3, <2>4, <2>5
  <1>5. CASE Fetch(r)
    BY <1>1, <1>4, <1>5 DEF Fetch, Answer, imagery, At, AtPicture
  <1>6. CASE KeepPicture(r)
    BY <1>1, <1>4, <1>6 DEF KeepPicture, At, AtPicture
  <1>7. CASE Record(r)
    <2>1. /\ seen' \in [Requests -> [plot : Nat, url : BOOLEAN]]
          /\ \A s \in Requests : seen'[s].plot = seen[s].plot
          /\ \A s \in Requests \ {r} : seen'[s].url = seen[s].url
      BY <1>1, <1>7 DEF Record, RecordAs
    <2>2. /\ seen[r].plot \in recorded' /\ recorded' = recorded \cup {seen[r].plot}
          /\ UNCHANGED <<picture, answer, unrecorded>> /\ At(r, AtPicture)
      BY <1>7 DEF Record, RecordAs, At, AtPicture
    <2>3. PICK place \in {"answer", "done"} : Goto(r, place)
      BY <1>7 DEF Record, RecordAs, Answer
    <2> QED
      BY <1>4, <2>1, <2>2, <2>3 DEF AtPicture
  <1>8. CASE KeepAnswer(r)
    BY <1>1, <1>4, <1>8 DEF KeepAnswer, Answer, AllBut, At, AtPicture
  <1> QED
    BY <1>3, <1>5, <1>6, <1>7, <1>8 DEF ImageryStep

LEMMA PicturesFail ==
  ASSUME WalletInv, ImageryInv, NEW r \in Requests, Running(r), Answer(r), ImageryFails(r),
         UNCHANGED plots
  PROVE  ImageryInv'
  <1> USE DEF ImageryInv, ImageryFails
  <1>1. \A s \in Requests : pc'[s] = IF s = r THEN "done" ELSE pc[s]
    BY DEF WalletInv, PlaceInv, Answer, Goto
  <1>2. ImageryTypeOK'
    BY DEF ImageryTypeOK
  <1>3. SeenInv'
    BY <1>1 DEF SeenInv, At, AtPicture
  <1>4. ImageryIsRecorded'
    BY <1>1 DEF ImageryIsRecorded
  <1> QED
    BY <1>2, <1>3, <1>4

LEMMA PicturesExpire ==
  ASSUME ImageryInv, NEW p, Expire(p), UNCHANGED plots
  PROVE  ImageryInv'
  <1> USE DEF ImageryInv, Expire, AllBut
  <1>1. /\ picture' \subseteq picture /\ answer' \subseteq answer
        /\ UNCHANGED <<pc, seen, recorded, unrecorded>>
    OBVIOUS
  <1> QED
    BY <1>1 DEF ImageryTypeOK, SeenInv, ImageryIsRecorded, At

LEMMA ImageryNext == WalletInv /\ LandInv /\ ImageryInv /\ [Next]_vars => ImageryInv'
  <1> SUFFICES ASSUME WalletInv, LandInv, ImageryInv, [Next]_vars PROVE ImageryInv'
    OBVIOUS
  <1>0. DOMAIN pc = Requests
    BY DEF WalletInv, PlaceInv
  <1>1. CASE UNCHANGED vars
    BY <1>1, PicturesAside DEF vars, ImageryRows, At
  <1>2. ASSUME NEW r \in Requests, UNCHANGED ImageryRows,
               WalletStep(r) \/ AssignWallet(r) \/ LandStep(r)
        PROVE  ImageryInv'
    <2>1. PICK place : /\ Goto(r, place) /\ place \notin AtPicture
                       /\ pc[r] \notin {"record", "record image"}
      BY <1>2 DEF WalletStep, VerifyCheck, PatchCheck, WalletCheck, UpsertWallet, RemoveWallet,
         SyncUser, AssignCheck, AssignWallet, LoginCheck, SignUp, Answer, AtPicture, LandStep,
         FindLatest, Search, StartRequest, ConnectWallet, CreateRequest, UpdateCriteria,
         SelectCheck, SelectPlot, EscrowCheck, RecordEscrow, AddPlot, PlotFound, SetStatus,
         AddListing, ListingCheck, EditListing, SetListing, Take
    <2>2. \A s \in Requests : pc'[s] = IF s = r THEN place ELSE pc[s]
      BY <1>0, <2>1 DEF Goto
    <2> QED
      BY <1>2, <2>1, <2>2, PicturesAside DEF At
  <1>3. ASSUME NEW r \in Requests, ImageryStep(r), UNCHANGED LandRows PROVE ImageryInv'
    BY <1>3, PicturesStep DEF LandRows, landRows
  <1>4. ASSUME NEW r \in Requests, Running(r), Answer(r), ImageryFails(r), UNCHANGED LandRows
        PROVE  ImageryInv'
    BY <1>4, PicturesFail DEF LandRows, landRows
  <1>5. ASSUME NEW p, Expire(p), UNCHANGED LandRows PROVE ImageryInv'
    BY <1>5, PicturesExpire DEF LandRows, landRows
  <1> QED
    BY <1>1, <1>2, <1>3, <1>4, <1>5 DEF Next

-----------------------------------------------------------------------------
(* OfficeInv is inductive.                                                 *)
THEOREM OfficeInvariant == Spec => []OfficeInv
  <1>1. Init => OfficeInv
    BY WalletInit, LandInit, ImageryInit DEF OfficeInv
  <1>2. OfficeInv /\ [Next]_vars => OfficeInv'
    BY WalletNext, LandNext, ImageryNext DEF OfficeInv
  <1> QED
    BY <1>1, <1>2, PTL DEF Spec

(* The variables keep their types: no two users list one wallet, a plot    *)
(* belongs to a request, and one that is selected to that request.         *)
THEOREM OfficeTypes == Spec => []TypeOK
  BY OfficeInvariant, PTL DEF OfficeInv, WalletInv, LandInv, ImageryInv, TypeOK

(* For any number of requests and users: outside the two writes, and but   *)
(* for the causes that mixed remembers, the wallet that is paid is the one *)
(* that is listed.                                                         *)
THEOREM WalletsAgree == Spec => []WalletRecordsAgree
  <1>1. OfficeInv => WalletRecordsAgree
    BY DEF OfficeInv, WalletInv, PairInv, WalletRecordsAgree
  <1> QED
    BY OfficeInvariant, <1>1, PTL

(* A user has more than one land request only by searches that overlapped, *)
(* however many there are.                                                 *)
THEOREM OneRequest == Spec => []OneRequestNeedsCause
  <1>1. OfficeInv => OneRequestNeedsCause
    <2> SUFFICES ASSUME OfficeInv, NEW u \in Accounts
                 PROVE  Cardinality(Mine(u)) <= 1 + twins[u]
      BY DEF OneRequestNeedsCause, Mine
    <2>1. /\ IsFiniteSet(Founding(u)) /\ twins[u] \in Nat /\ LandTypeOK
          /\ Cardinality(Mine(u)) + Cardinality(Founding(u)) <= 1 + twins[u]
      BY DEF OfficeInv, LandInv, CountInv, HeldInv
    <2>2. Cardinality(Founding(u)) \in Nat /\ Cardinality(Mine(u)) \in Nat
      BY <2>1, FS_CardinalityType, MineIsFinite
    <2> QED
      BY <2>1, <2>2
  <1> QED
    BY OfficeInvariant, <1>1, PTL

(* A picture that the cache points to is recorded, for any number of plots *)
(* and readers.                                                            *)
THEOREM PicturesAreRecorded == Spec => []ImageryIsRecorded
  BY OfficeInvariant, PTL DEF OfficeInv, ImageryInv
=============================================================================
