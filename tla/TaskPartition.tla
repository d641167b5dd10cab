--------------------------- MODULE TaskPartition ---------------------------
(***************************************************************************)
(* How every back-end step spreads its tasks over the servers.  Each       *)
(* set-up script collects one shell command per slot (or per slot pair)    *)
(* and gives server i of the list the slice                                *)
(*     all_tasks[i * num_job_server : (i+1) * num_job_server]              *)
(* with num_job_server = math.ceil(len(all_tasks) / len(server_list)).     *)
(*                                                                         *)
(* Tasks and servers are named by their positions in the two lists,        *)
(* counted from 1; the code's i is server - 1.                             *)
(***************************************************************************)
EXTENDS Integers

\* math.ceil(tasks / servers)
NumJobServer(tasks, servers) == (tasks + servers - 1) \div servers

\* The tasks of the slice that is written to parallel_<step>_<server>.txt.
\* A Python slice is cut off at the end of the list, hence the set 1..tasks.
LocalTasks(tasks, servers, server) ==
  LET k == NumJobServer(tasks, servers)
  IN  {j \in 1..tasks : (server - 1) * k < j /\ j <= server * k}

\* The server whose file holds a task.
Host(tasks, servers, j) ==
  CHOOSE server \in 1..servers : j \in LocalTasks(tasks, servers, server)
=============================================================================
