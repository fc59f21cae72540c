--------------------------- MODULE MCPaymentLedger ---------------------------
(***************************************************************************)
(* Small instances of PaymentLedger.  Two payment ids and two idempotency  *)
(* keys let a key be reused for another payment (bob's), an id be reused   *)
(* under another key (clash) and a provider be spelled in two ways; the    *)
(* verifications include a second transaction for a payment, a transaction *)
(* that already paid another payment, a wrong amount and a reused key.     *)
(*                                                                         *)
(* A behaviour is of two callers with all these inputs, or of a crowd:     *)
(* three callers, one more than the pool has connections, that open two    *)
(* payments and verify them under one event key.                           *)
(***************************************************************************)
EXTENDS PaymentLedger

CONSTANTS p1, p2, k1, k2, o1, t1, t2, e1, e2, e3, i1, i2, Upper, Lower

MCCanonical   == [n \in {Upper, Lower} |-> Lower]
MCIntentEvent == [k \in {k1, k2} |-> IF k = k1 THEN i1 ELSE i2]

Intent(id, key, name, amount) ==
  [id |-> id, key |-> key, amount |-> amount, order |-> o1, provider |-> name]

Verification(id, name, amount, transaction, eventKey) ==
  [id |-> id, amount |-> amount, provider |-> name,
   transaction |-> transaction, eventKey |-> eventKey]

alice   == Intent(p1, k1, Upper, 1)
retry   == Intent(p1, k1, Lower, 1)      \* the same details, spelled differently
bob     == Intent(p2, k2, Lower, 1)
clash   == Intent(p1, k2, Lower, 1)      \* the id reused under another key
invalid == Intent(p2, k2, Lower, 3)      \* above the limit

MCIntents == {alice, retry, bob, clash, invalid}

pay1      == Verification(p1, Lower, 1, t1, e1)
pay1again == Verification(p1, Upper, 1, t1, e2)
pay1other == Verification(p1, Lower, 1, t2, e1)
short1    == Verification(p1, Lower, 2, t1, e1)   \* not the amount of p1
steal2    == Verification(p2, Lower, 1, t1, e3)   \* pay1's transaction

sameKey2  == Verification(p2, Lower, 1, t2, e1)   \* pay1's event key

MCVerifications == {pay1, pay1again, pay1other, short1, steal2, sameKey2}

-----------------------------------------------------------------------------
CONSTANTS c1, c2, c3

VARIABLE crowd

\* In a crowd c1 and c3 ask for one payment and c2 for the other.
MayAsk(c) ==
  IF crowd THEN IF c = c2 THEN {bob, sameKey2} ELSE {alice, pay1}
  ELSE IF c = c3 THEN {} ELSE (Intents \cup Verifications) \ {sameKey2}

MCInit == Init /\ crowd \in BOOLEAN

MCNext ==
  /\ Next
  /\ \A c \in Callers : request'[c] \in MayAsk(c) \cup {NoRequest}
  /\ UNCHANGED crowd

\* The fairness of FairSpec: Advance leaves the requests alone.
MCSpec == MCInit /\ [][MCNext]_<<vars, crowd>> /\ \A c \in Callers : SF_vars(Advance(c))

=============================================================================
