---------------------------- MODULE MCKmCatalogue ----------------------------
(* Two users (one an admin), two models of up to two versions, a shipped   *)
(* FER and two others; documents with one question.                        *)
EXTENDS KmCatalogue

CONSTANTS ana, root, A, B, s, f, g, q1, r1, r2

One(suggested, freeText) ==
    [id |-> q1, text |-> "ok", wellTyped |-> TRUE, suggested |-> suggested,
     hidden |-> FALSE, freeText |-> freeText]

Document(suggested, staged, freeText) ==
    [title |-> "ok", edition |-> 1,
     inline |-> [i \in 1..Len(staged) |-> [id |-> staged[i], label |-> "no_english"]],
     sections |-> <<[id |-> q1, title |-> "ok", questions |-> <<One(suggested, freeText)>>]>>]

MCDocuments == {Document(<<f>>, <<>>, FALSE), Document(<<f, s>>, <<f>>, FALSE),
                Document(<<>>, <<>>, FALSE), Document(<<f, g>>, <<>>, TRUE)}

MCShipped == {[row |-> <<A, 1>>, status |-> "draft", content |-> Document(<<g, s>>, <<g>>, TRUE)],
              [row |-> <<A, 1>>, status |-> "published", content |-> Document(<<s>>, <<>>, TRUE)]}
==============================================================================
