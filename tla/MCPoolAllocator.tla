---- MODULE MCPoolAllocator ----
EXTENDS PoolInLinear

Shape(size, count, alignment, offset) ==
    [size |-> size, count |-> count, alignment |-> alignment, offset |-> offset]

\* Even: links to the next node, to every second, to every third, guard bytes, one node.
\* Links into the middle of a node: between the links, onto the end of the first node,
\* onto a link, and the smaller pool of the Scheduler.  Wraps around: no room for a node.
SomeShapes ==
    {Shape(4, 4, 4, 0), Shape(4, 8, 4, 0), Shape(4, 12, 4, 0), Shape(2, 5, 4, 1),
     Shape(8, 1, 8, 0), Shape(8, 13, 8, 0), Shape(56, 128, 8, 0),
     Shape(8, 4, 8, 0), Shape(8, 12, 8, 0), Shape(12, 3, 8, 4), Shape(16, 1, 16, 4)}

\* Even and whole: nine nodes, one.  The first header behind is on the last node.
SomeLinearShapes ==
    {Shape(8, 9, 8, 0), Shape(8, 1, 8, 0), Shape(4, 4, 4, 0)}

Request(size, alignment, offset) == [size |-> size, alignment |-> alignment, offset |-> offset]

SomeRequests == {Request(3, 4, 0), Request(12, 4, 8), Request(8, 16, 0)}

SomePlaced == Placed
================================
