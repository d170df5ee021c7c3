--------------------------- MODULE MCPublishChain ---------------------------
(* The small instances of PublishChain that TLC explores. *)
EXTENDS PublishChain

CONSTANT i1

OneInstance == {i1}
===============================================================================
