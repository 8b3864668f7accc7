---------------------------- MODULE MCDocumentAgent ----------------------------
(* Three runners and a person on one task, with a plan that reads a document and
   one that only searches.                                                    *)
EXTENDS DocumentAgent

CONSTANTS r1, r2, r3, p1, t1

MCPlans == {<<"search">>, <<"search", "read">>}
================================================================================
