----------------------------- MODULE MCFixtureBatch -----------------------------
(* A small instance of FixtureBatch: two captures of one Group with one Post,
   the second with a newer Group and an older Post, and a file that does not
   parse.                                                                   *)
EXTENDS FixtureBatch

CONSTANTS early, mixed, malformed, group, post
MCCaptures == {early, mixed, malformed}
MCEntities == {group, post}
MCContent ==
  [f \in MCCaptures |->
     CASE f = early -> <<[entity |-> group, time |-> 1], [entity |-> post, time |-> 1]>>
       [] f = mixed -> <<[entity |-> group, time |-> 2], [entity |-> post, time |-> 0]>>
       [] OTHER -> <<>>]
=============================================================================
