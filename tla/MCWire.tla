-------------------------------- MODULE MCWire --------------------------------
(* Instances of Wire for TLC.                                               *)
EXTENDS Wire

\* Two separators, the escape with its digits, a space and a word.
SomeSymbols == {"a", "space", "/", "%", "[", "]", "3A"}

AllSymbols ==
  SomeSymbols \cup {":", ",", "quote", "25", "b", "lobby", "user", "message", "enter",
                   "leave", "list", "disconnect", "connect"}

Trimmed(S) == {s \in S : s # <<>> /\ s[1] # "space" /\ Last(s) # "space"}

\* Every line up to three symbols, and the commands with every body up to one.
SomeTyped ==
  Trimmed(BoundedSeq(SomeSymbols, 3)
            \cup {<<"/", "enter", "space">> \o s : s \in BoundedSeq(SomeSymbols, 1)})
    \cup {<<"/", cmd>> : cmd \in {"enter", "leave", "list", "disconnect"}}

\* No name, plain names, and names that would break a frame.
SomeNames ==
  {<<>>, <<"a">>, <<"a", "space", "b">>, <<"]">>, <<"[", "a">>, <<":", "25">>}
==============================================================================
