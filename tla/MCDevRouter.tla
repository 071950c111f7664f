---------------------------- MODULE MCDevRouter ----------------------------
(* One person who writes in a direct chat and in a group, and another      *)
(* member of that group: the shapes share keys both ways.                  *)
EXTENDS DevRouter

MCKeysOf == [dm |-> <<"p", "pc">>, mine |-> <<"p", "gc">>, theirs |-> <<"q", "gc">>]
MCChatOf == [dm |-> "pc", mine |-> "gc", theirs |-> "gc"]
MCSessionOf == [dm |-> "pc", mine |-> "gc", theirs |-> "gc"]
MCOperatorOf == [dm |-> {"a"}, mine |-> {"a"}, theirs |-> {}]

=============================================================================
