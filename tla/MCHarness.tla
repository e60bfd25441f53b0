------------------------------ MODULE MCHarness ------------------------------
EXTENDS Harness

(* Inputs: batches of queries; an input of one-query batches gives every   *)
(* query a query_job of its own.                                           *)
ThreeBatches == << <<"a">>, <<"b">>, <<"c">> >>
OneBatch == << <<"a">> >>
SharedJob == << <<"a", "b">> >>
=============================================================================
