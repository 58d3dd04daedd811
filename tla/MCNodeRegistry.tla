--------------------------- MODULE MCNodeRegistry ---------------------------
(* Instances of NodeRegistry for TLC.                                      *)
EXTENDS NodeRegistry

\* What registerSatelliteNodes sends for satellite s on node n.
Registration(s, n) == [node_id |-> n, meta_node |-> n, meta_satellite |-> s]

CONSTANTS a, b, c, d

\* Three satellites on two nodes, and two of them also without a node id,
\* which defaults to the satellite's.  c names a satellite and a node.
ScheduleMessages ==
  {Registration(s, n) : s \in {a, b, c}, n \in {c, d}}
    \union {Registration(s, s) : s \in {a, b}}
=============================================================================
