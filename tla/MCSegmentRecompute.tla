-------------------------- MODULE MCSegmentRecompute --------------------------
(* An instance of SegmentRecompute: two segments that share an audience tag,  *)
(* of which the second matches by it as well.                                 *)
EXTENDS SegmentRecompute, TLC

CONSTANTS s1, s2

MCFirst ==
  (s1 :> [carries |-> {"news", "vip"}, requires |-> {}]) @@
  (s2 :> [carries |-> {"news"}, requires |-> {"news"}])
MCEdits == {{"vip"}}
MCLess == {{"news"}}
MCOverwrites == {[tags |-> {s2}, audience |-> {"news"}]}
MCScopes == {{s1, s2}}
=============================================================================
