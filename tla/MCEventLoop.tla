----------------------------- MODULE MCEventLoop -----------------------------
EXTENDS EventLoop

CONSTANTS r, t, d, x, n

MCPri == [c \in Callbacks |-> IF c \in {r, x} THEN 1 ELSE 0]
=============================================================================
