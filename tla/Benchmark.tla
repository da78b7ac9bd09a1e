------------------------------ MODULE Benchmark ------------------------------
(***************************************************************************)
(* The Node benchmark driver (src/benchmarks/node/node_benchmark.ts).      *)
(* run_clients starts num_of_concurrent_tasks copies of redis_benchmark    *)
(* (create_bench_tasks); they share the module-level started_tasks_counter *)
(* and each loops: check the counter against total_commands, increment it, *)
(* choose an action, pick a client by the counter, await one call, record *)
(* its latency under the chosen action.  Runs follow each other (main and  *)
(* the loop over configurations await each run).                           *)
(*                                                                          *)
(* A task runs synchronously up to its first await, so the for loop of     *)
(* create_bench_tasks issues the first command of every task in one step;  *)
(* afterwards a task resumes when its call settles (every call settles:    *)
(* EveryRequestSettles in BaseClient) and runs to its next await.          *)
(***************************************************************************)
EXTENDS Naturals, Sequences, SequencesExt, Functions

CONSTANTS
    NumTasks,       \* num_of_concurrent_tasks
    NumClients,     \* clients.length (clientCount <= concurrent tasks)
    TotalCommands,  \* total_commands of one run
    Runs            \* runs of run_clients in one benchmark process

ASSUME NumClients \in 1 .. NumTasks /\ TotalCommands \in Nat /\ Runs \in Nat

Tasks == 1 .. NumTasks
Actions == {"GET_NON_EXISTING", "GET_EXISTING", "SET"}

\* A command: the client method called and the key range its key is drawn
\* from: generate_key_set gives 1 .. SIZE_SET_KEYSPACE ("setKeys"),
\* generate_key_get the keys above it ("getKeys").
Commands == [op : {"get", "set"}, keys : {"setKeys", "getKeys"}]

\* No call awaited (the task has not started or its promise resolved).
NoCall == [action |-> "none", cmd |-> [op |-> "none", keys |-> "none"], client |-> 0]

VARIABLES
    started_tasks_counter,
    running_tasks,      \* the module-level array of task promises: <<run, task>>
    inflight,           \* per task of this run: its awaited call, or NoCall
    action_latencies,   \* per action: latencies recorded in this run
    bench_json_results, \* one entry per finished run
    run,                \* runs started
    phase               \* idle, running, finished

vars == <<started_tasks_counter, running_tasks, inflight, action_latencies,
          bench_json_results, run, phase>>

-----------------------------------------------------------------------------

\* The command the switch of redis_benchmark awaits for each action: every
\* case calls client.get(generate_key_get()).
Issued(action) == [op |-> "get", keys |-> "getKeys"]

\* One call: the chosen action, the command and clients[counter % length].
Call(action, counter) ==
    [action |-> action, cmd |-> Issued(action), client |-> counter % NumClients]

Init ==
    /\ started_tasks_counter = 0
    /\ running_tasks = <<>>
    /\ inflight = [t \in Tasks |-> NoCall]
    /\ action_latencies = [a \in Actions |-> 0]
    /\ bench_json_results = <<>>
    /\ run = 0
    /\ phase = "idle"

\* Fault variant: started_tasks_counter is not reset for the new run.
create_bench_tasks_noReset ==
    /\ phase = "idle" /\ run < Runs
    /\ \E acts \in [Tasks -> Actions] :
          inflight' = [t \in Tasks |->
                         IF started_tasks_counter + t <= TotalCommands
                         THEN Call(acts[t], started_tasks_counter + t) ELSE NoCall]
    /\ started_tasks_counter' =
          IF started_tasks_counter + NumTasks < TotalCommands
          THEN started_tasks_counter + NumTasks
          ELSE IF started_tasks_counter < TotalCommands THEN TotalCommands
          ELSE started_tasks_counter
    /\ action_latencies' = [a \in Actions |-> 0]
    /\ running_tasks' = running_tasks \o [t \in Tasks |-> <<run, t>>]
    /\ run' = run + 1
    /\ phase' = "running"
    /\ UNCHANGED bench_json_results

\* run_clients: fresh action_latencies; create_bench_tasks: reset the
\* counter, then the for loop starts each task, which runs its first
\* iteration up to the await (the counter is 1..NumTasks for the first tasks).
create_bench_tasks ==
    /\ phase = "idle" /\ run < Runs
    /\ \E acts \in [Tasks -> Actions] :
          inflight' = [t \in Tasks |->
                         IF t <= TotalCommands THEN Call(acts[t], t) ELSE NoCall]
    /\ started_tasks_counter' = IF NumTasks < TotalCommands
                                THEN NumTasks ELSE TotalCommands
    /\ action_latencies' = [a \in Actions |-> 0]
    /\ running_tasks' = running_tasks \o [t \in Tasks |-> <<run, t>>]
    /\ run' = run + 1
    /\ phase' = "running"
    /\ UNCHANGED bench_json_results

\* Fault variant: the counter is compared with <= (one command too many).
redis_benchmark_offByOne(t, action) ==
    /\ inflight[t] # NoCall
    /\ action_latencies' = [action_latencies EXCEPT ![inflight[t].action] = @ + 1]
    /\ IF started_tasks_counter <= TotalCommands
       THEN /\ started_tasks_counter' = started_tasks_counter + 1
            /\ inflight' = [inflight EXCEPT ![t] = Call(action, started_tasks_counter + 1)]
       ELSE /\ inflight' = [inflight EXCEPT ![t] = NoCall]
            /\ UNCHANGED started_tasks_counter
    /\ UNCHANGED <<running_tasks, bench_json_results, run, phase>>

\* redis_benchmark resumed after its await: record the latency under the
\* action chosen before the await, then loop: while the counter is below
\* total_commands, increment it, choose an action and await the next call;
\* otherwise the task's promise resolves.
redis_benchmark(t, action) ==
    /\ inflight[t] # NoCall
    /\ action_latencies' = [action_latencies EXCEPT ![inflight[t].action] = @ + 1]
    /\ IF started_tasks_counter < TotalCommands
       THEN /\ started_tasks_counter' = started_tasks_counter + 1
            /\ inflight' = [inflight EXCEPT ![t] = Call(action, started_tasks_counter + 1)]
       ELSE /\ inflight' = [inflight EXCEPT ![t] = NoCall]
            /\ UNCHANGED started_tasks_counter
    /\ UNCHANGED <<running_tasks, bench_json_results, run, phase>>

\* Promise.all(running_tasks) resolves (the tasks of earlier runs are done);
\* run_clients computes tps from the counter and pushes its results; the
\* process exits after the last run.
run_clients ==
    /\ phase = "running"
    /\ \A i \in DOMAIN running_tasks :
          running_tasks[i][1] < run - 1 \/ inflight[running_tasks[i][2]] = NoCall
    /\ bench_json_results' = Append(bench_json_results,
          [commands |-> started_tasks_counter, latencies |-> action_latencies])
    /\ phase' = IF run = Runs THEN "finished" ELSE "idle"
    /\ UNCHANGED <<started_tasks_counter, running_tasks, inflight,
                   action_latencies, run>>

\* choose_action's random draw is a choice among the three actions.
Next ==
    \/ create_bench_tasks
    \/ \E t \in Tasks, a \in Actions : redis_benchmark(t, a)
    \/ run_clients

Spec == Init /\ [][Next]_vars

-----------------------------------------------------------------------------

TypeOK ==
    /\ started_tasks_counter \in 0 .. TotalCommands
    /\ inflight \in [Tasks -> [action : Actions, cmd : Commands,
                               client : 0 .. NumClients - 1] \cup {NoCall}]
    /\ action_latencies \in [Actions -> 0 .. TotalCommands]
    /\ run \in 0 .. Runs
    /\ phase \in {"idle", "running", "finished"}

\* Each run of run_clients issues and measures exactly total_commands
\* commands, however the concurrent tasks interleave on the shared counter:
\* its tps uses started_tasks_counter = total_commands, and the latencies
\* it reports add up to total_commands.
ExactCommandCount ==
    \A i \in DOMAIN bench_json_results :
        /\ bench_json_results[i].commands = TotalCommands
        /\ SumFunction(bench_json_results[i].latencies) = TotalCommands

\* The command a task awaits is the one its chosen action names (the
\* ChosenAction names and the set_/get_existing_/get_non_existing_ result
\* keys): SET sets a key of the set range, GET_EXISTING gets a key that SETs
\* write, GET_NON_EXISTING gets a key above that range.
Intended(action) ==
    CASE action = "SET" -> [op |-> "set", keys |-> "setKeys"]
      [] action = "GET_EXISTING" -> [op |-> "get", keys |-> "setKeys"]
      [] action = "GET_NON_EXISTING" -> [op |-> "get", keys |-> "getKeys"]

ActionIssuesItsCommand ==
    \A t \in Tasks : inflight[t] # NoCall => inflight[t].cmd = Intended(inflight[t].action)

====
