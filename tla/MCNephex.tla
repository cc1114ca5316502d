------------------------------ MODULE MCNephex ------------------------------
(* Definitions of the runs of module NephexLink: APID 0 is undefined, 1 is *)
(* decimated by 2, 2 by 1, and 3 is unknown.                               *)
EXTENDS NephexLink

MCSize == [a \in 0 .. MaxApid |-> IF a = 0 THEN 0 ELSE 1]
MCRate == [a \in 0 .. MaxApid |-> CASE a = 1 -> 2 [] a = 2 -> 1 [] OTHER -> 0]

\* A connection that begins with a packet, and ones that begin in the middle.
MCPrefixes == {<<>>, <<Byte("aa"), Byte("aa"), Byte("x")>>}

\* A packet of the right length.
MCFile == {Packet(2, 2, "aa")}
=============================================================================
