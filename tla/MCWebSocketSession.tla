------------------------- MODULE MCWebSocketSession -------------------------
EXTENDS WebSocketSession

Frame(op, fin, masked, size, ok) ==
  [op |-> op, fin |-> fin, masked |-> masked, size |-> size, ok |-> ok]

\* One frame of every kind the session tells apart, for MaxMessage = 2.
AllFrames == {
  Frame("text", TRUE, TRUE, 1, TRUE), Frame("text", TRUE, TRUE, 1, FALSE),
  Frame("text", TRUE, FALSE, 1, TRUE), Frame("binary", TRUE, TRUE, 3, TRUE),
  Frame("binary", FALSE, TRUE, 1, TRUE), Frame("continuation", FALSE, TRUE, 1, TRUE),
  Frame("continuation", TRUE, TRUE, 1, TRUE), Frame("ping", TRUE, TRUE, 0, TRUE),
  Frame("pong", TRUE, TRUE, 0, TRUE), Frame("close", TRUE, TRUE, 2, TRUE),
  Frame("close", TRUE, TRUE, 1, FALSE), Frame("reserved", TRUE, TRUE, 0, TRUE)}
=============================================================================
