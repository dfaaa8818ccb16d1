----------------------------- MODULE MCFramePath -----------------------------
(***************************************************************************)
(* Instances of FramePath for TLC: frames of both kinds of identifiers     *)
(* with the parts all zero, all ones and mixed, and lengths on both sides  *)
(* of the boundaries of length codes and words.                            *)
(***************************************************************************)
EXTENDS FramePath

Frame(id, kind, len) ==
  [id |-> id, ext |-> "ext" \in kind, fd |-> "fd" \in kind, brs |-> "brs" \in kind,
   rtr |-> "rtr" \in kind, len |-> len]

MCHostFrames ==
  { Frame(291, {"fd", "brs"}, 64), Frame(305419896, {"ext", "fd"}, 33),
    Frame(262144, {"ext"}, 12), Frame(536870911, {"ext", "rtr"}, 8),
    Frame(2048 + 5, {"brs", "fd", "rtr"}, 12) }

\* Another program claims more data than it sends.
MCOtherCommands ==
  { [id |-> 2047, flags |-> 4, len |-> 5, has |-> 3] }

\* A frame of another node.
Node(sid, eid, kind, dlc) ==
  [ext |-> "ext" \in kind, fd |-> "fd" \in kind, brs |-> "brs" \in kind,
   rtr |-> "rtr" \in kind, dlc |-> dlc, sid |-> sid, eid |-> eid]

MCBusFrames ==
  { Node(291, 0, {"fd", "brs"}, 14), Node(291, 0, {"rtr"}, 8),
    Node(291, 7, {"ext"}, 12), Node(0, 128, {"ext"}, 3) }

MCFilterCmds ==
  { [idx |-> 0, id |-> 291, mask |-> 2047, ext |-> FALSE],
    [idx |-> 1, id |-> 256, mask |-> 1792, ext |-> FALSE],
    [idx |-> 1, id |-> 262144, mask |-> 536870911, ext |-> TRUE],
    AcceptAll }
=============================================================================
