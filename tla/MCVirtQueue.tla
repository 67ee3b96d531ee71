---------------------------- MODULE MCVirtQueue ----------------------------
\* Which device runs, and the chains its driver uses: both heads of one queue,
\* one head of a queue whose requests are all answered at once, or one head of
\* each of the two queues that share the interrupt line.
EXTENDS VirtQueue

MCDevices ==
    [kind : {"block"}, async : {TRUE}, chains : {{0} \X Heads}]
        \cup [kind : {"net"}, async : {FALSE}, chains : {{0} \X Heads, {1} \X {1}}]
        \cup [kind : {"console"}, async : {FALSE}, chains : {Queues \X {1}}]
=============================================================================
