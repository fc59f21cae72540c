------------------------------- MODULE Providers -------------------------------
(***************************************************************************)
(* Service providers of routes/admin.ts: the application of a provider,    *)
(* the administrator's reviews, and the orders of customers who choose a   *)
(* provider from the public list (POST /orders; what becomes of an order   *)
(* once it is stored is the matter of OrderDesk).                          *)
(*                                                                         *)
(* An order with a provider is three awaits: the SELECT that finds the     *)
(* provider in the list, the preparation of the orders' table, the INSERT. *)
(* Reviews run in between.  Names, prices, rates and notes are left out;   *)
(* whether a rate was agreed is kept, since no review approves without it. *)
(***************************************************************************)
EXTENDS Naturals

CONSTANTS
  Applicants,  \* bound: providers that apply
  Customers,   \* order requests served at the same time
  NoApplicant

ASSUME ProvidersAssumption == NoApplicant \notin Applicants

VARIABLES
  provider,  \* hormoz_service_providers
  ordering,  \* the handler of each order request
  placed     \* what is stored in hormoz_service_orders of the providers named

providersVars == <<provider, ordering, placed>>

ProviderStatus == {"pending_review", "approved", "needs_changes", "suspended"}

\* `listed`: public_listing, the consent given with the application.
Provider == [status: ProviderStatus \cup {"absent"}, listed: BOOLEAN, agreed: BOOLEAN]

NotApplied == [status |-> "absent", listed |-> FALSE, agreed |-> FALSE]

\* `seen` is history: the provider was on the list at some moment since the
\* request came.
Ordering == [step: {"idle", "select", "ensure", "insert"}, named: Applicants \cup {NoApplicant}, seen: BOOLEAN]

NotOrdering == [step |-> "idle", named |-> NoApplicant, seen |-> FALSE]

ProvidersTypeOK ==
  /\ provider \in [Applicants -> Provider]
  /\ ordering \in [Customers -> Ordering]
  /\ placed \subseteq [named: Applicants, seen: BOOLEAN]
  /\ \A c \in Customers : ordering[c].step = "idle" <=> ordering[c].named = NoApplicant

ProvidersInit ==
  /\ provider = [p \in Applicants |-> NotApplied]
  /\ ordering = [c \in Customers |-> NotOrdering]
  /\ placed = {}

-----------------------------------------------------------------------------
Exists(p) == provider[p].status # "absent"

\* What GET /providers lists, and what the SELECT of an order looks for.
OnList(p) == provider[p].status = "approved" /\ provider[p].listed

\* The public list as it should be: approved on agreed terms, with consent.
Offered(p) == provider[p].status = "approved" /\ provider[p].listed /\ provider[p].agreed

WriteProvider(p, row) ==
  /\ provider' = [provider EXCEPT ![p] = row]
  /\ ordering' = [c \in Customers |-> [ordering[c] EXCEPT !.seen = @ \/ (ordering[c].named = p /\ Offered(p)')]]
  /\ UNCHANGED placed

\* POST /providers: INSERT ... 'pending_review', without an agreed rate.
Apply(p) ==
  /\ ~Exists(p)
  /\ \E l \in BOOLEAN : WriteProvider(p, [status |-> "pending_review", listed |-> l, agreed |-> FALSE])

ReviewAnyhow(p) ==    \* mutant: an approval does not need the rate
  /\ Exists(p)
  /\ \E s \in ProviderStatus, a \in BOOLEAN : WriteProvider(p, [provider[p] EXCEPT !.status = s, !.agreed = a])

\* PATCH /admin/providers/:id: any status but an approval without a rate; the
\* rate is replaced too, so a review without one forgets what was agreed.
ReviewProvider(p) ==
  /\ Exists(p)
  /\ \E s \in ProviderStatus, a \in BOOLEAN :
       /\ s = "approved" => a
       /\ WriteProvider(p, [provider[p] EXCEPT !.status = s, !.agreed = a])

-----------------------------------------------------------------------------
(* POST /orders *)

\* The number comes from a list that was read at any time, or from elsewhere.
CallOrder(c, p) ==
  /\ ordering[c] = NotOrdering
  /\ Exists(p)
  /\ ordering' = [ordering EXCEPT ![c] = [step |-> "select", named |-> p, seen |-> Offered(p)]]
  /\ UNCHANGED <<provider, placed>>

LeaveOrder(c) == ordering' = [ordering EXCEPT ![c] = NotOrdering] /\ UNCHANGED <<provider, placed>>

\* Not on the list (any more), of another kind of service, or the rest of the
\* body is refused; an error of the query ends the request as well.
FindProvider(c) ==
  /\ ordering[c].step = "select"
  /\ \/ OnList(ordering[c].named) /\ ordering' = [ordering EXCEPT ![c].step = "ensure"] /\ UNCHANGED <<provider, placed>>
     \/ LeaveOrder(c)

\* ensureServiceOrdersTable, of which OrderDesk has the rest.
EnsureTable(c) ==
  /\ ordering[c].step = "ensure"
  /\ \/ ordering' = [ordering EXCEPT ![c].step = "insert"] /\ UNCHANGED <<provider, placed>>
     \/ LeaveOrder(c)

\* INSERT, with the name found before; its answer may be lost.
StoreOrder(c) ==
  /\ ordering[c].step = "insert"
  /\ \/ /\ placed' = placed \cup {[named |-> ordering[c].named, seen |-> ordering[c].seen]}
        /\ ordering' = [ordering EXCEPT ![c] = NotOrdering]
        /\ UNCHANGED provider
     \/ LeaveOrder(c)

ProvidersNext ==
  \/ \E p \in Applicants : Apply(p) \/ ReviewProvider(p) \/ \E c \in Customers : CallOrder(c, p)
  \/ \E c \in Customers : FindProvider(c) \/ EnsureTable(c) \/ StoreOrder(c)

ProvidersSpec == ProvidersInit /\ [][ProvidersNext]_providersVars

-----------------------------------------------------------------------------
(* Properties *)

\* A stored order names a provider that was offered to the public, with its
\* consent and on agreed terms, at some moment while the order was being served:
\* a suspension may overtake the order, but nobody is ordered from who was not
\* on offer all that time.
OrdersNameOffers == \A o \in placed : o.seen

=============================================================================
