---------------------------- MODULE MCRunSession ----------------------------
EXTENDS RunSession, TLC

CONSTANTS term, usr1

None == [f \in {} |-> 0]
\* A terminal on stdin with a pipe on stdout and stderr.
Named(flags, file, noSystemd, network, terminal) ==
    [flags |-> flags, file |-> file, noSystemd |-> noSystemd,
     network |-> network, terminal |-> terminal, pipe |-> terminal]
Limited(flags, file) == Named(flags, file, FALSE, FALSE, FALSE)
Memory(n) == "memoryMiB" :> n
Pids(n) == "pids" :> n
Cpus(n) == "cpus" :> n

\* One MiB is 4 bytes and an int64 ends at 31: 8 MiB overflow, 16 wrap to 0.
MCSettings ==
    {Named(None, None, FALSE, TRUE, FALSE), Named(Memory(7), Cpus(40), FALSE, TRUE, TRUE)}
    \cup {Limited(Memory(0) @@ Cpus(15), Memory(7) @@ Cpus(-1) @@ Pids(2)),
          Limited(None, Memory(8)), Limited(Memory(16), None), Limited(Memory(-1), None),
          Limited(Pids(-1), None), Limited(Cpus(9), None), Limited(Cpus(NaN), None),
          Limited(Cpus(41), None),
          Named(Pids(1), None, TRUE, FALSE, FALSE)}
=============================================================================
