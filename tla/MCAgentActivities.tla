------------------------- MODULE MCAgentActivities -------------------------
EXTENDS AgentActivities

\* Each activity after jwtlet's, and two beside each other.
SmallPlans == {{a} : a \in Others} \union {{"ih", "registration"}}
=============================================================================
