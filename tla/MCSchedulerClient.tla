------------------------- MODULE MCSchedulerClient --------------------------
EXTENDS SchedulerClient
=============================================================================
