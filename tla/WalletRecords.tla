---------------------------- MODULE WalletRecords ----------------------------
(***************************************************************************)
(* The wallet of a user, kept twice: in User.walletAddress, which payments *)
(* are sent to and wallet logins look up, and in the UserWallet table,     *)
(* which remembers whether the user has verified it.  wallets.ts writes    *)
(* both, one after the other; wallet.ts, the land workflow and the wallet  *)
(* login write only the first.                                             *)
(***************************************************************************)
EXTENDS Handlers, FiniteSets

CONSTANTS
  People,            \* users who registered otherwise
  Wallets,
  Alike,             \* wallets whose addresses begin with the same 8 letters
  NoAccount, NoAddress, NoWallet, NoRecord

Accounts  == People \cup Requests
Addresses == Wallets \X {"as given", "lower case"}
Given(w)  == <<w, "as given">>
Lower(w)  == <<w, "lower case">>

UserRows   == [wallet : Addresses \cup {NoAddress}, mail : Wallets \cup {NoWallet}]
WalletRows == [address : Addresses, verified : BOOLEAN]

ASSUME WalletAssumption ==
  /\ People \cap Requests = {} /\ Alike \subseteq Wallets
  /\ NoWallet \notin Wallets /\ NoAddress \notin Addresses
  /\ NoAccount \notin Accounts \cup UserRows /\ NoRecord \notin WalletRows

VARIABLES
  user,        \* User rows: walletAddress, and the wallet the e-mail is made of
  userWallet,  \* UserWallet rows, by userId
  arg,         \* what a wallet handler was given
  (* history *)
  mixed        \* accounts whose two records may differ

wallets == <<user, userWallet, mixed>>

HasAccount(a) == user[a] # NoAccount
Listed(a)     == IF userWallet[a] = NoRecord THEN NoAddress ELSE userWallet[a].address
Holders(ad)   == {a \in Accounts : HasAccount(a) /\ user[a].wallet = ad}
TakenFrom(a, ad) == \E b \in Accounts \ {a} : Listed(b) = ad

(* Who is between the two writes of a.                                     *)
Syncing(a) == {r \in Requests : pc[r] = "sync" /\ arg[r].user = a}

NoArg == [user |-> NoAccount, address |-> NoAddress, verified |-> FALSE]

InitWallets ==
  /\ \E owner \in People, w \in Wallets, known \in BOOLEAN :
       LET Owns(a) == known /\ a = owner
       IN /\ user = [a \in Accounts |->
                       IF a \in People
                       THEN [wallet |-> IF Owns(a) THEN Given(w) ELSE NoAddress,
                             mail |-> NoWallet]
                       ELSE NoAccount]
          /\ userWallet = [a \in Accounts |->
                             IF Owns(a) THEN [address |-> Given(w), verified |-> TRUE]
                             ELSE NoRecord]
  /\ arg = [r \in Requests |-> NoArg]
  /\ mixed = {}

-----------------------------------------------------------------------------
(* POST /users/wallet/verify and PATCH /users/wallet: the wallet must not  *)
(* be listed for another user.  Only Algorand's capitals pass as addresses.*)
WalletCheck(r, verified) ==
  /\ pc[r] = "idle"
  /\ \E a \in Accounts, w \in Wallets :
       /\ HasAccount(a) /\ ~TakenFrom(a, Given(w))
       /\ arg' = [arg EXCEPT ![r] = [user |-> a, address |-> Given(w), verified |-> verified]]
  /\ Goto(r, "upsert")
  /\ UNCHANGED wallets

VerifyCheck(r) == WalletCheck(r, TRUE)
PatchCheck(r)  == WalletCheck(r, FALSE)

(* A write of the pair makes both records new, unless it meets another.    *)
BeginPair(a) == mixed' = IF Syncing(a) = {} THEN mixed \ {a} ELSE mixed \cup {a}

(* walletAddress is unique in the table.                                   *)
UpsertWallet(r) ==
  LET a == arg[r].user
  IN /\ pc[r] = "upsert"
     /\ \/ /\ ~TakenFrom(a, arg[r].address)
           /\ userWallet' = [userWallet EXCEPT ![a] =
                [address |-> arg[r].address, verified |-> arg[r].verified]]
           /\ BeginPair(a)
           /\ Goto(r, "sync")
        \/ /\ TakenFrom(a, arg[r].address)
           /\ Answer(r)
           /\ UNCHANGED <<userWallet, mixed>>
     /\ UNCHANGED <<user, arg>>

(* DELETE /users/wallet counts the tasks of employeeId, which no route     *)
(* sets: the count is 0.                                                   *)
RemoveWallet(r) ==
  /\ pc[r] = "idle"
  /\ \E a \in Accounts :
       /\ HasAccount(a)
       /\ userWallet' = [userWallet EXCEPT ![a] = NoRecord]
       /\ BeginPair(a)
       /\ arg' = [arg EXCEPT ![r] = [NoArg EXCEPT !.user = a]]
  /\ Goto(r, "sync")
  /\ UNCHANGED user

(* Mutant: the user's own record keeps the wallet that is removed.         *)
SyncUserAddress(r) ==
  LET a == arg[r].user
  IN /\ pc[r] = "sync"
     /\ user' = [user EXCEPT ![a].wallet =
                   IF arg[r].address = NoAddress THEN @ ELSE arg[r].address]
     /\ Answer(r)
     /\ UNCHANGED <<userWallet, arg, mixed>>

(* The second write of all three.                                          *)
SyncUser(r) ==
  /\ pc[r] = "sync"
  /\ user' = [user EXCEPT ![arg[r].user].wallet = arg[r].address]
  /\ Answer(r)
  /\ UNCHANGED <<userWallet, arg, mixed>>

(* POST /user/wallet looks for another user of the address, in whatever    *)
(* case it is given, and takes the first one it finds.                     *)
AssignCheck(r) ==
  /\ pc[r] = "idle"
  /\ \E a \in Accounts, ad \in Addresses :
       /\ HasAccount(a) /\ (Holders(ad) = {} \/ a \in Holders(ad))
       /\ arg' = [arg EXCEPT ![r] = [NoArg EXCEPT !.user = a, !.address = ad]]
  /\ Goto(r, "assign")
  /\ UNCHANGED wallets

AssignWallet(r) ==
  LET a == arg[r].user
  IN /\ pc[r] = "assign"
     /\ user' = [user EXCEPT ![a].wallet = arg[r].address]
     /\ mixed' = mixed \cup {a}
     /\ Answer(r)
     /\ UNCHANGED <<userWallet, arg>>

(* POST /auth/wallet-login looks the address up in lower case ...          *)
LoginCheck(r) ==
  /\ pc[r] = "idle"
  /\ \E w \in Wallets :
       /\ arg' = [arg EXCEPT ![r] = [NoArg EXCEPT !.address = Lower(w)]]
       /\ IF Holders(Lower(w)) # {} THEN Answer(r) ELSE Goto(r, "signup")
  /\ UNCHANGED wallets

(* ... and else makes an account, whose e-mail must be new.                *)
SignUp(r) ==
  LET w == arg[r].address[1]
      SameMail(v) == v = w \/ {v, w} \subseteq Alike
      used == \E a \in Accounts : HasAccount(a) /\ SameMail(user[a].mail)
  IN /\ pc[r] = "signup"
     /\ \/ /\ ~used
           /\ user' = [user EXCEPT ![r] = [wallet |-> Lower(w), mail |-> w]]
           /\ mixed' = mixed \cup {r}
        \/ used /\ UNCHANGED <<user, mixed>>
     /\ Answer(r)
     /\ UNCHANGED <<userWallet, arg>>

WalletStep(r) ==
  \/ VerifyCheck(r) \/ PatchCheck(r) \/ UpsertWallet(r) \/ RemoveWallet(r) \/ SyncUser(r)
  \/ AssignCheck(r) \/ LoginCheck(r) \/ SignUp(r)

(* A failure between the two writes is never made good.                    *)
WalletFails(r) ==
  /\ mixed' = IF pc[r] = "sync" THEN mixed \cup {arg[r].user} ELSE mixed
  /\ UNCHANGED <<user, userWallet, arg>>

-----------------------------------------------------------------------------
WalletTypeOK ==
  /\ user \in [Accounts -> UserRows \cup {NoAccount}]
  /\ userWallet \in [Accounts -> WalletRows \cup {NoRecord}]
  /\ arg \in [Requests -> [user : Accounts \cup {NoAccount},
                           address : Addresses \cup {NoAddress}, verified : BOOLEAN]]
  /\ mixed \subseteq Accounts
  /\ \A a, b \in Accounts : Listed(a) = Listed(b) => a = b \/ Listed(a) = NoAddress

(* The wallet that is paid is the one that the user listed last, unless    *)
(* two writers of the pair overlapped, one failed between its writes, or a *)
(* writer came that knows only User.walletAddress; and the next writer of  *)
(* both that is not disturbed brings them together again.                  *)
WalletRecordsAgree ==
  \A a \in Accounts : HasAccount(a) /\ Syncing(a) = {} /\ a \notin mixed
                      => user[a].wallet = Listed(a)
=============================================================================
