-------------------------- MODULE MCSpendLedgerTx --------------------------
(***************************************************************************)
(* Two processes, three ids, a ceiling of two: batches that overlap in an id *)
(* and together exceed the ceiling, a batch with a duplicate id, transfers, *)
(* partial and uncertain settlements and both reconciliations.              *)
(***************************************************************************)
EXTENDS SpendLedgerTx, TLC

CONSTANTS e1, e2, e3, d1, v1

E(e) == [id |-> e, hash |-> d1, amount |-> 1]
A(c) == [hash |-> d1, previous |-> 1, charged |-> c, evidence |-> v1]

MCCalls == { ReserveCall(<<E(e1), E(e2)>>, NoLimit),
             ReserveCall(<<E(e3), E(e2)>>, 3),
             ReserveCall(<<E(e3), E(e3)>>, NoLimit),
             ReserveCall(<<E(e1)>>, 1),
             TransferCall(E(e2), E(e3)),
             RetireCall(E(e1)),
             SettlementCall(e1, d1, "settled", 0),
             SettlementCall(e2, d1, "uncertain", 1),
             SettlementCall(e3, d1, "violation", 1),
             ReleaseCall(e2, A(0)),
             ForgiveCall(e3, A(0)) }
=============================================================================
