---------------------------- MODULE MC_Benchmark ----------------------------
EXTENDS Benchmark

\* Three tasks over two clients, four commands per run, two runs: tasks
\* finish at different iterations and the second run reuses the counter and
\* the running_tasks array of the first.
MC_NumTasks == 3
MC_NumClients == 2
MC_TotalCommands == 4
MC_Runs == 2

====
