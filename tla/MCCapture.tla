----------------------------- MODULE MCCapture ------------------------------
\* Sends and other tasks that share an id or a context, or both, with the first
\* send, one after the other or side by side.
EXTENDS Capture

Task(no, id, context, send) == [no |-> no, id |-> id, context |-> context, send |-> send]

MCTasks == {Task(1, 7, "a", TRUE), Task(2, 7, "b", TRUE), Task(3, 7, "b", FALSE),
            Task(4, 8, "a", TRUE)}
=============================================================================
