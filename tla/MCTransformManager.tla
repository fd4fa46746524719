------------------------ MODULE MCTransformManager ------------------------
(* Small instances of TransformManager, and the MockTopics below it, for TLC. *)
EXTENDS TransformManager

CONSTANTS m1, m2, w1, x1, x2

MCManagers == {m1, m2}
MCPubOf == [m \in MCManagers |-> <<"pub", m>>]
MCSubOf == [m \in MCManagers |-> <<"sub", m>>]
MCBrief == {m2}
MCPubs == {MCPubOf[m] : m \in MCManagers}
MCSubs == {MCSubOf[m] : m \in MCManagers}
MCTypes == {"tf2_msgs/TFMessage", "tf/tfMessage"}
MCTyping(t1, t2) == [u \in MCPubs \cup MCSubs |-> IF u \in {MCPubOf[m1], MCSubOf[m1]} THEN t1 ELSE t2]
MCTypings == {MCTyping("tf2_msgs/TFMessage", t) : t \in MCTypes}
MCWaiters == {w1}
MCAt == [w \in MCWaiters |-> m1]
MCTransforms == {x1, x2}
MCOwn == [p \in MCPubs |-> IF p = MCPubOf[m1] THEN {x1} ELSE IF p = MCPubOf[m2] THEN {x2} ELSE {}]
MCNeeds == [w \in MCWaiters |-> MCTransforms]
=============================================================================
