----------------------------- MODULE MCInMemory -----------------------------
(* A small instance of InMemory. *)
EXTENDS InMemory

MCShift == <<1, 2, 1>>
MCFactor == <<5, 3>>
MCDraw == << <<6, 3, 5, 0>>, <<1, 2, 7, 4>> >>

MCLayouts == {<<3, 1, 4, 2>>, <<2, 0, 3, 1>>}

MCRequests ==
  [mode : {"unverified", "verified"}, slots : MCLayouts, min_size : {2}]
    \cup [mode : {"pairs"}, slots : {<<2, 0, 3, 1>>}, min_size : {2}]
    \cup [mode : {"stream"}, slots : {<<>>}, min_size : {0, 2}]

=============================================================================
