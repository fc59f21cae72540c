---------------------------- MODULE MCOrderPayments ----------------------------
(***************************************************************************)
(* Small instances of OrderPayments and of the order desk in it.  One      *)
(* order of an earlier version and one to be submitted, an administrator's,*)
(* a coordinator's and a marketer's session and one status change of each  *)
(* route; two idempotency keys, a valid amount and one above the limit.    *)
(*                                                                         *)
(* A behaviour is of the desk alone, with all of the first, or of the desk *)
(* with payments and one session that changes each order at most once.     *)
(***************************************************************************)
EXTENDS OrderPayments, TLC

CONSTANTS o1, o2, s1, s2, s3, admin, sara, reza, i1, i2, p1, p2

MCOwner     == s1 :> admin @@ s2 :> sara @@ s3 :> reza
MCRole      == admin :> "admin" @@ sara :> "service_coordinator" @@ reza :> "marketing"
MCPaymentOf == i1 :> p1 @@ i2 :> p2
MCStatuses  == {"submitted", "confirmed", "payment_confirmed"}

ChangeOf(route, session, order, status) ==
  [route |-> route, session |-> session, order |-> order, status |-> status]

Confirm == ChangeOf("admin", s1, o1, "payment_confirmed")

MCChanges == {Confirm, ChangeOf("team", s2, o1, "confirmed"), ChangeOf("team", s3, o1, "confirmed")}

Input(o, key, amount) == [order |-> o, key |-> key, amount |-> amount, provider |-> "unconfigured"]

MCInputs == {Input(o1, i1, 1), Input(o2, i1, 1), Input(o2, i2, 1), Input(o1, i2, 2)}

-----------------------------------------------------------------------------
VARIABLE side

MCInit ==
  /\ PaymentsInit
  /\ side \in {"desk", "payments"}
  /\ side = "payments" => live \subseteq {s1}

WithoutPayments == UNCHANGED journal /\ intent' = [q \in Requests |-> NoIntent]

FewChanges ==
  /\ live' \subseteq {s1}
  /\ \A q \in Requests : request'[q] \in {NoChange, Confirm}
  /\ \A o \in Stored' : Len(orders'[o].history) <= 2

MCNext ==
  /\ PaymentsNext
  /\ IF side = "desk" THEN WithoutPayments ELSE FewChanges
  /\ UNCHANGED side

MCSpec == MCInit /\ [][MCNext]_<<payVars, side>>

Symmetry == Permutations(Requests) \cup Permutations(TrackingTokens)

=============================================================================
