---------------------------- MODULE MCCoreEngine ----------------------------
(* TLC instances of CoreEngine.                                            *)
EXTENDS EngineParsing

Data(type, data) == [type |-> type, data |-> data]

\* Empty, with bytes that delimit headers, and with data beyond the MTU.
MyContents == {Data(0, <<>>), Data(1, <<Http!CR, Http!LF>>), Data(2, <<1, 2, 3, 4>>)}

\* One for each reason for which Packet::deserialize rejects a body, and an
\* empty one.
MyBodies == {<<>>, <<1, 0, 0>>, <<1, 0, 0, 0, 0, 4, 1, 2, 3, 4>>, <<1, 0, 0, 0, 0, 3, 1, 2>>}
=============================================================================
