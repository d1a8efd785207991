---------------------------- MODULE MCPeerSync ----------------------------
(* PeerSync on a tree with a fork, 1-3-4 beside 1-2, and an invalid block 5 *)
(* on top of 2.                                                            *)
EXTENDS PeerSync

MCPath == << << 1 >>, << 1, 2 >>, << 1, 3 >>, << 1, 3, 4 >>, << 1, 2, 5 >> >>
MCStartTip == [p \in Peer |-> IF p \in Faulty THEN 3 ELSE 5]
=============================================================================
