---------------------------- MODULE LandRequests ----------------------------
(***************************************************************************)
(* Land acquisition: each user's requests, of which every step but two     *)
(* works on the newest; the plots that administrators upload for them; and *)
(* the public catalog.  A request is numbered by its creation and a plot   *)
(* likewise; neither is ever deleted.  Budget, size, purpose and reference *)
(* are one: the criteria.                                                  *)
(***************************************************************************)
EXTENDS WalletRecords, Naturals, Sequences

CONSTANTS
  Criteria, GivenStatuses,   \* what requests give, of LandRequestStatus
  Degrees,                   \* coordinates that requests give
  NoCriteria, NoDegree, NoListing

Statuses == {"REQUEST_CREATED", "PLOT_FOUND", "PLOT_SELECTED", "ESCROW_CREATED",
             "ESCROW_FUNDED", "DUE_DILIGENCE", "EXECUTION", "REGISTRY_TRANSFER",
             "COMPLETED", "CANCELLED"}

ASSUME LandAssumption ==
  /\ GivenStatuses \subseteq Statuses
  /\ NoCriteria \notin Criteria /\ NoDegree \notin Degrees

VARIABLES
  land,      \* LandAcquisitionRequest rows, oldest first
  plots,     \* LandPlot rows, oldest first
  listing,   \* LandListing rows, by the request that made them
  held,      \* what a land handler read or was given
  (* history *)
  twins      \* searches of a user who had no request that overlapped another

landRows == <<land, plots, listing, twins>>

Latest(u) == LET mine == {i \in DOMAIN land : land[i].user = u}
             IN IF mine = {} THEN 0 ELSE CHOOSE i \in mine : \A j \in mine : j <= i

NoHeld == [row |-> 0, wallet |-> NoAddress, plot |-> 0, where |-> <<NoDegree, NoDegree>>,
           listing |-> NoListing]

NewLand(u) == [user |-> u, wallet |-> NoAddress, criteria |-> NoCriteria,
               step |-> "CONNECT_WALLET", status |-> "REQUEST_CREATED", plot |-> 0,
               funded |-> FALSE]

(* No request yet, or one with a plot.                                     *)
InitLand ==
  /\ \E u \in People :
       \/ land = <<>> /\ plots = <<>>
       \/ /\ land = <<[NewLand(u) EXCEPT !.status = "PLOT_FOUND", !.step = "CONFIRMATION"]>>
          /\ plots = <<[request |-> 1, placed |-> TRUE]>>
  /\ listing = [r \in Requests |-> NoListing]
  /\ held = [r \in Requests |-> NoHeld]
  /\ twins = [a \in Accounts |-> 0]

-----------------------------------------------------------------------------
(* start, connect-wallet, create-request and update-criteria               *)

Founding(u) == {r \in Requests : /\ pc[r] \in {"start", "connect", "create"}
                                 /\ arg[r].user = u /\ held[r].row = 0}

(* All four look for the newest request first.                             *)
Search(r, newest) ==
  /\ pc[r] = "idle"
  /\ \E u \in Accounts, op \in {"start", "connect", "create", "criteria"},
        ad \in Addresses \cup {NoAddress} :
       LET i == newest[u]
       IN /\ HasAccount(u)
          /\ op = "connect" => ad # NoAddress
          /\ op \in {"start", "criteria"} => ad = NoAddress
          /\ arg' = [arg EXCEPT ![r] = [NoArg EXCEPT !.user = u, !.address = ad]]
          /\ held' = [held EXCEPT ![r] = [NoHeld EXCEPT
                        !.row = i, !.wallet = IF i = 0 THEN NoAddress ELSE land[i].wallet]]
          /\ twins' = [twins EXCEPT ![u] =
                         IF i = 0 /\ op # "criteria" /\ Founding(u) # {} THEN @ + 1 ELSE @]
          /\ IF (op = "start" /\ i # 0) \/ (op = "criteria" /\ i = 0)
             THEN Answer(r) ELSE Goto(r, op)
  /\ UNCHANGED <<wallets, land, plots, listing>>

(* Mutant: a request that has gone on is not found again.                  *)
LatestOpen(u) == IF Latest(u) # 0 /\ land[Latest(u)].status # "REQUEST_CREATED" THEN 0
                 ELSE Latest(u)
FindLatestOpen(r) == Search(r, [u \in Accounts |-> LatestOpen(u)])

FindLatest(r) == Search(r, [u \in Accounts |-> Latest(u)])

StartRequest(r) ==
  /\ pc[r] = "start"
  /\ land' = Append(land, NewLand(arg[r].user))
  /\ Answer(r)
  /\ UNCHANGED <<wallets, arg, held, plots, listing, twins>>

(* The wallet goes to the request and then, if that succeeds, to the user. *)
ConnectWallet(r) ==
  LET i == held[r].row
      ad == arg[r].address
  IN /\ pc[r] = "connect"
     /\ land' = IF i = 0 THEN Append(land, [NewLand(arg[r].user) EXCEPT !.wallet = ad])
                ELSE [land EXCEPT ![i].wallet = ad]
     /\ Goto(r, "assign")
     /\ UNCHANGED <<wallets, arg, held, plots, listing, twins>>

(* Whatever became of the request it begins anew; the wallet, if none is   *)
(* given, is the one that was read.                                        *)
CreateRequest(r) ==
  LET i    == held[r].row
      base == IF i = 0 THEN NewLand(arg[r].user) ELSE land[i]
      wallet == IF arg[r].address = NoAddress THEN held[r].wallet ELSE arg[r].address
  IN /\ pc[r] = "create"
     /\ \E c \in Criteria :
          LET row == [base EXCEPT !.wallet = wallet, !.criteria = c,
                                  !.step = "CONFIRMATION", !.status = "REQUEST_CREATED"]
          IN land' = IF i = 0 THEN Append(land, row) ELSE [land EXCEPT ![i] = row]
     /\ Answer(r)
     /\ UNCHANGED <<wallets, arg, held, plots, listing, twins>>

UpdateCriteria(r) ==
  /\ pc[r] = "criteria"
  /\ \E c \in Criteria : land' = [land EXCEPT ![held[r].row].criteria = c]
  /\ Answer(r)
  /\ UNCHANGED <<wallets, arg, held, plots, listing, twins>>

-----------------------------------------------------------------------------
(* Plots and escrow: the status is written, never looked at.               *)

Take(r, i, p, place) ==
  /\ held' = [held EXCEPT ![r] = [NoHeld EXCEPT !.row = i, !.plot = p]]
  /\ Goto(r, place)

(* Mutant: a plot of whatever request may be selected.                     *)
SelectCheckAny(r) ==
  /\ pc[r] = "idle"
  /\ \E i \in DOMAIN land, p \in DOMAIN plots : Take(r, i, p, "select")
  /\ UNCHANGED <<wallets, arg, landRows>>

SelectCheck(r) ==
  /\ pc[r] = "idle"
  /\ \E p \in DOMAIN plots : Take(r, plots[p].request, p, "select")
  /\ UNCHANGED <<wallets, arg, landRows>>

SelectPlot(r) ==
  /\ pc[r] = "select"
  /\ land' = [land EXCEPT ![held[r].row].plot = held[r].plot,
                          ![held[r].row].status = "PLOT_SELECTED"]
  /\ Answer(r)
  /\ UNCHANGED <<wallets, arg, held, plots, listing, twins>>

EscrowCheck(r) ==
  /\ pc[r] = "idle"
  /\ \E i \in DOMAIN land : Take(r, i, 0, "escrow")
  /\ UNCHANGED <<wallets, arg, landRows>>

RecordEscrow(r) ==
  /\ pc[r] = "escrow"
  /\ \/ land' = [land EXCEPT ![held[r].row].funded = TRUE,
                             ![held[r].row].status = "ESCROW_FUNDED"]
     \/ land' = [land EXCEPT ![held[r].row].status = "ESCROW_CREATED"]
     \/ land' = land
  /\ Answer(r)
  /\ UNCHANGED <<wallets, arg, held, plots, listing, twins>>

(* The administrators' plots: the row, then the status of its request.     *)
AddPlot(r) ==
  /\ pc[r] = "idle"
  /\ \E i \in DOMAIN land, placed \in BOOLEAN :
       /\ plots' = Append(plots, [request |-> i, placed |-> placed])
       /\ Take(r, i, 0, "found")
  /\ UNCHANGED <<wallets, arg, land, listing, twins>>

PlotFound(r) ==
  /\ pc[r] = "found"
  /\ land' = [land EXCEPT ![held[r].row].status = "PLOT_FOUND"]
  /\ Answer(r)
  /\ UNCHANGED <<wallets, arg, held, plots, listing, twins>>

SetStatus(r) ==
  /\ pc[r] = "idle"
  /\ \E i \in DOMAIN land, s \in GivenStatuses : land' = [land EXCEPT ![i].status = s]
  /\ Answer(r)
  /\ UNCHANGED <<wallets, arg, held, plots, listing, twins>>

-----------------------------------------------------------------------------
(* The catalog                                                             *)

Places == (Degrees \cup {NoDegree}) \X (Degrees \cup {NoDegree})

AddListing(r) ==
  /\ pc[r] = "idle"
  /\ \E where \in Places, s \in {"PUBLISHED", "DRAFT"} :
       listing' = [listing EXCEPT ![r] = [where |-> where, status |-> s]]
  /\ Answer(r)
  /\ UNCHANGED <<wallets, arg, held, land, plots, twins>>

(* If one coordinate is given the other is read, and both are written.     *)
ListingCheck(r) ==
  /\ pc[r] = "idle"
  /\ \E l \in Requests, n \in {1, 2}, d \in Degrees :
       /\ listing[l] # NoListing
       /\ held' = [held EXCEPT ![r] = [NoHeld EXCEPT
                     !.listing = l, !.where = [listing[l].where EXCEPT ![n] = d]]]
  /\ Goto(r, "list")
  /\ UNCHANGED <<wallets, arg, landRows>>

EditListing(r) ==
  LET l == held[r].listing
  IN /\ pc[r] = "list"
     /\ listing' = [listing EXCEPT ![l] = IF @ = NoListing THEN @
                                          ELSE [@ EXCEPT !.where = held[r].where]]
     /\ Answer(r)
     /\ UNCHANGED <<wallets, arg, held, land, plots, twins>>

(* An edit without coordinates, or a deletion, is one call.                *)
SetListing(r) ==
  /\ pc[r] = "idle"
  /\ \E l \in Requests :
       /\ listing[l] # NoListing
       /\ \/ \E s \in {"PUBLISHED", "DRAFT"} : listing' = [listing EXCEPT ![l].status = s]
          \/ listing' = [listing EXCEPT ![l] = NoListing]
  /\ Answer(r)
  /\ UNCHANGED <<wallets, arg, held, land, plots, twins>>

LandStep(r) ==
  \/ FindLatest(r) \/ StartRequest(r) \/ ConnectWallet(r) \/ CreateRequest(r)
  \/ UpdateCriteria(r) \/ SelectCheck(r) \/ SelectPlot(r) \/ EscrowCheck(r)
  \/ RecordEscrow(r) \/ AddPlot(r) \/ PlotFound(r) \/ SetStatus(r)
  \/ AddListing(r) \/ ListingCheck(r) \/ EditListing(r) \/ SetListing(r)

-----------------------------------------------------------------------------
Acquisitions == [user : Accounts, wallet : Addresses \cup {NoAddress},
                 criteria : Criteria \cup {NoCriteria},
                 step : {"CONNECT_WALLET", "CONFIRMATION"}, status : Statuses,
                 plot : Nat, funded : BOOLEAN]
PlotRows == [request : Nat, placed : BOOLEAN]

LandTypeOK ==
  /\ land \in Seq(Acquisitions) /\ plots \in Seq(PlotRows)
  /\ \A p \in DOMAIN plots : plots[p].request \in DOMAIN land
  /\ \A i \in DOMAIN land : land[i].plot # 0 =>
       land[i].plot \in DOMAIN plots /\ plots[land[i].plot].request = i
  /\ listing \in [Requests -> {NoListing} \cup
                    [where : Places, status : {"PUBLISHED", "DRAFT"}]]

(* A user has one request for good, whatever is called first and how       *)
(* often, but for as many more as there were searches that found none      *)
(* while another that had found none was still to create its own.          *)
OneRequestNeedsCause ==
  \A u \in Accounts :
    Cardinality({i \in DOMAIN land : land[i].user = u}) <= 1 + twins[u]
=============================================================================
