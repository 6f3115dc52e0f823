------------------------- MODULE MCProtocolJournal -------------------------
(***************************************************************************)
(* Two writers, two journal keys, one derived row and one session row that *)
(* other code flips.  The requests overlap in every way the code tells     *)
(* apart: two-record batches in both orders, a batch of one record that    *)
(* depends on another journal key and deletes the derived row, a           *)
(* conflicting value for a key, and every argument error.                  *)
(***************************************************************************)
EXTENDS ProtocolJournal

CONSTANTS w1, w2, k1, k2, v1, v2, session, index

Rec(k, v) == [key |-> k, value |-> v]
Put(t, v) == [target |-> t, value |-> v]
Delete(t) == [target |-> t, value |-> Absent]
Expect(t, v) == [target |-> t, expected |-> v]

Request(records, conditions, operations) ==
  [records |-> records, conditions |-> conditions, operations |-> operations]

MCRequests ==
  { Request(<<Rec(k1, v1), Rec(k2, v1)>>, {Expect(session, v1)},
            <<Put(index, v1)>>),
    Request(<<Rec(k2, v1), Rec(k1, v1)>>, {},
            <<Put(index, v1), Put(index, v2)>>),
    Request(<<Rec(k1, v1)>>, {Expect(k2, Absent)}, <<Delete(index)>>),
    Request(<<Rec(k1, v1), Rec(k2, v2)>>, {}, <<Put(index, v1)>>),
    Request(<<>>, {}, <<>>),
    Request(<<Rec(k1, v1), Rec(k1, v1)>>, {}, <<>>),
    Request(<<Rec(k1, v1)>>, {Expect(k1, Absent)}, <<>>),
    Request(<<Rec(k1, v1)>>, {}, <<Put(k2, v2)>>),
    Request(<<Rec(k1, v1)>>, {}, <<Delete(k1)>>) }

=============================================================================
