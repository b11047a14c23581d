--------------------------- MODULE MCTranslation ---------------------------
(* Three messages of a speaker, or two, or two languages: with one fault; and *)
(* with two faults what is small enough.                                      *)
EXTENDS Translation

CONSTANTS vi, ja
languages == {vi, ja}
scene_(len, marks, langs, n) == [len |-> len, marks |-> marks, langs |-> langs, faults |-> n]
scenes == {scene_(<<1, 0, 1>>, {}, {vi}, 1), scene_(<<1, 1, 1>>, {}, {vi}, 1),
           scene_(<<1, 1>>, {}, {vi, ja}, 1), scene_(<<1, 1>>, {}, {vi}, 2),
           scene_(<<2>>, {}, {vi, ja}, 2), scene_(<<0>>, {1}, {vi, ja}, 2)}
=============================================================================
