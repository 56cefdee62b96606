---- MODULE MCScheduler ----
EXTENDS Scheduler

Tasks(parent, queue) == [parent |-> parent, queue |-> queue]

\* Task 1 has two or three children, or tasks 1 and 2 have one or two each.  In the first four
\* loads each thread has had a task of its own; in the fifth those that have not, the workers,
\* find none but children; in the last a worker may find the parent.
SomeLoads ==
    {Tasks(<<0, 1, 1, 0, 0>>, <<inGlobal, 0, 1, 2, inGlobal>>),
     Tasks(<<0, 0, 1, 2, 2>>, <<inGlobal, inGlobal, 0, 1, 2>>),
     Tasks(<<0, 1, 1, 0, 1>>, <<0, withClient, 1, 2, inGlobal>>),
     Tasks(<<0, 0, 1, 2, 0>>, <<1, withClient, 0, 2, inGlobal>>),
     Tasks(<<0, 1, 1, 0, 0>>, <<0, inGlobal, inGlobal, withClient, 0>>),
     Tasks(<<0, 1, 1, 0, 0>>, <<inGlobal, 0, inGlobal, withClient, 2>>)}

\* Three generations.
DeepLoads == {Tasks(<<0, 1, 2>>, <<inGlobal, 0, 1>>)}
============================
