------------------------------ MODULE MCXioTcp ------------------------------
(* Small instances of XioTcp: what a connection may start with.            *)
EXTENDS XioTcp
\* Nothing, or the end of an earlier packet and a header whose length is out of
\* range: a receiver in xtr_lost searches twice.
MCPrefixes == {<<>>, <<Byte("other"), Header(2 * MaxPkt, FALSE)>>}
MCNoPrefix == {<<>>}
=============================================================================
