---------------------------- MODULE MCProcesses ----------------------------
\* Instances of Processes: the page and the processes it starts, directly or
\* through each other.
EXTENDS Processes

NoWindow == {}
InExit == {"exit"}
InSpawn == {"spawn"}
BeforeStart == {"start"}
=============================================================================
