---------------------------- MODULE MCRetrieval ----------------------------
(* Retrieval for TLC: two users of one tenant and group; the reader of the *)
(* first search has two documents, one of them a copy of the other user's, *)
(* and a chunk that takes up half a context.                               *)
EXTENDS Retrieval

MCTenant == [u \in User |-> "t1"]
MCGroups == [u \in User |-> {"private", "team"}]
MCDocument == 1..3
MCOwner == <<"u1", "u1", "u2">>
MCChunk == {<<1, 1>>, <<1, 2>>, <<2, 1>>, <<3, 1>>}
MCFile == <<"f1", "f2", "f2">>
MCText == [c \in Chunk |-> IF c[1] = 1 THEN c[2] ELSE 3]
MCFacts == {<<1, 1>>, <<3, 1>>}
MCReader == [s \in Search |-> IF s = "s1" THEN "u1" ELSE "u2"]
MCLength == [c \in Chunk |-> IF c = <<1, 2>> THEN 2 ELSE 1]
=============================================================================
