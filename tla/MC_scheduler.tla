---------------------------- MODULE MC_scheduler ----------------------------
EXTENDS Scheduler

\* Without a timeout or spurious wakeups, with spurious wakeups (as condition
\* variables, semaphores and futexes), and with both.  Neither need come, so a
\* wait with a timeout only behaves as one of the last.
AllWaits == {<<FALSE, FALSE>>, <<FALSE, TRUE>>, <<TRUE, TRUE>>}
NotSpurious == BOOLEAN \X {FALSE}
=============================================================================
