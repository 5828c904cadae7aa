----------------------- MODULE PictureLedger_proofs -----------------------
(* Proofs about PictureLedger. *)
EXTENDS PictureLedger, FiniteSetTheorems, TLAPS

Inv ==
  /\ taken \in Nat /\ counted \in Nat
  /\ IsFiniteSet(backlog)
  /\ Exact

LEMMA InvInit == Init => Inv
BY FS_EmptySet DEF Init, Inv, Exact

LEMMA InvNext == Inv /\ [Next]_vars => Inv'
<1> SUFFICES ASSUME Inv, [Next]_vars PROVE Inv'
  OBVIOUS
<1>1. Cardinality(backlog) \in Nat
  BY FS_CardinalityType DEF Inv
<1>2. CASE Take
  BY <1>2 DEF Take, Inv, Exact
<1>3. CASE Join
  <2>1. counted + 1 \notin backlog
    BY DEF Inv, Exact
  <2>2. /\ IsFiniteSet(backlog')
        /\ Cardinality(backlog') = Cardinality(backlog) + 1
    BY <1>3, <2>1, FS_AddElement DEF Join, Inv
  <2>3. 1 .. counted' = (1 .. counted) \cup {counted + 1}
    BY <1>3 DEF Join, Inv
  <2>4. 1 .. counted' = backlog' \cup settled'
    BY <1>3, <2>3 DEF Join, Inv, Exact
  <2>5. pending' = Cardinality(backlog')
    BY <1>1, <1>3, <2>2 DEF Join, Inv, Exact
  <2>6. taken' \in Nat /\ counted' \in Nat /\ taken' - counted' \in {0, 1}
    BY <1>3 DEF Join, Inv, Exact
  <2>7. QED
    BY <2>2, <2>4, <2>5, <2>6 DEF Inv, Exact
<1>4. CASE GiveUp
  <2>1. /\ IsFiniteSet(backlog')
        /\ Cardinality(backlog') = Cardinality(backlog) - 1
    BY <1>4, FS_RemoveElement DEF GiveUp, Inv
  <2>2. 1 .. counted' = backlog' \cup settled'
    BY <1>4 DEF GiveUp, Inv, Exact
  <2>3. pending' = Cardinality(backlog')
    BY <1>1, <1>4, <2>1 DEF GiveUp, Inv, Exact
  <2>4. QED
    BY <1>4, <2>1, <2>2, <2>3 DEF GiveUp, Inv, Exact
<1>5. ASSUME NEW n \in backlog, Save(n) PROVE Inv'
  <2>1. 1 .. counted' = backlog' \cup settled'
    BY <1>5 DEF Save, Inv, Exact
  <2>2. QED
    BY <1>5, <2>1 DEF Save, Inv, Exact
<1>6. ASSUME NEW n \in backlog, Finish(n) PROVE Inv'
  <2>1. /\ IsFiniteSet(backlog')
        /\ Cardinality(backlog') = Cardinality(backlog) - 1
    BY <1>6, FS_RemoveElement DEF Finish, Inv
  <2>2. 1 .. counted' = backlog' \cup settled'
    BY <1>6 DEF Finish, Inv, Exact
  <2>3. pending' = Cardinality(backlog')
    BY <1>1, <1>6, <2>1 DEF Finish, Inv, Exact
  <2>4. QED
    BY <1>6, <2>1, <2>2, <2>3 DEF Finish, Inv, Exact
<1>7. CASE UNCHANGED vars
  BY <1>7 DEF vars, Inv, Exact
<1>8. QED
  BY <1>2, <1>3, <1>4, <1>5, <1>6, <1>7 DEF Next

(* pending_count of the ledger is the size of its backlog, and no picture  *)
(* that was counted is forgotten.                                          *)
THEOREM LedgerIsExact == Spec => []Exact
<1>1. Inv => Exact
  BY DEF Inv
<1>2. QED
  BY <1>1, InvInit, InvNext, PTL DEF Spec

=============================================================================
