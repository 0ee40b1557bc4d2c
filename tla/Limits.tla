------------------------------- MODULE Limits -------------------------------
(***************************************************************************)
(* The resource limits of one run: what the command line and the policy    *)
(* file ask for (policy.go), what is refused, and the cgroup that is asked *)
(* of libcontainer (cgroup.go).  CPU limits are counted in tenths of a     *)
(* microsecond of quota, so that the truncation to whole ones shows.       *)
(***************************************************************************)
EXTENDS Integers

CONSTANTS MaxInt,   \* the largest int64
          MiB,      \* bytes in a MiB
          Period,   \* cpuPeriodMicroseconds
          MinQuota, \* minCPUQuotaMicroseconds
          NumCPU,   \* runtime.NumCPU()
          NaN       \* the float that is not a number

ASSUME LimitsOK ==
    /\ MaxInt \in Nat \ {0} /\ MiB \in Nat \ {0}
    /\ Period \in Nat \ {0} /\ MinQuota \in Nat \ {0} /\ NumCPU \in Nat \ {0}
    /\ NaN \notin Int

Fields == {"memoryMiB", "pids", "cpus"}
NoLimits == [f \in Fields |-> 0]

\* A flag wins over the file, also with 0; what neither names is not limited.
\* Both are functions of the fields they name.
apply(flags, file) ==
    [f \in Fields |-> IF f \in DOMAIN file /\ f \notin DOMAIN flags THEN file[f]
                      ELSE IF f \in DOMAIN flags THEN flags[f] ELSE 0]

\* Arithmetic on int64 wraps around.
int64(n) == ((n + MaxInt + 1) % (2 * (MaxInt + 1))) - (MaxInt + 1)

maxMemoryMiB == MaxInt \div MiB
Quota(cpus) == cpus \div 10

\* Mutant: the size in bytes is not bounded.
checkSigns(l) ==
    /\ l["memoryMiB"] >= 0
    /\ l["pids"] >= 0
    /\ l["cpus"] # NaN /\ l["cpus"] \in 0..(NumCPU * Period * 10)
    /\ l["cpus"] > 0 => Quota(l["cpus"]) >= MinQuota

\* What is not refused.
check(l) ==
    /\ l["memoryMiB"] \in 0..maxMemoryMiB
    /\ l["pids"] >= 0
    /\ l["cpus"] # NaN /\ l["cpus"] \in 0..(NumCPU * Period * 10)
    /\ l["cpus"] > 0 => Quota(l["cpus"]) >= MinQuota

requested(l) == \E f \in Fields : l[f] > 0

systemdScope(noSystemd, session) == ~noSystemd /\ session
requireScope(l, hasScope) == requested(l) => hasScope

\* 0 stands for a limit that is not set.
cgroupConfig(l, hasScope) ==
    [systemd |-> hasScope,
     memory |-> IF l["memoryMiB"] > 0 THEN int64(l["memoryMiB"] * MiB) ELSE 0,
     pids |-> IF l["pids"] > 0 THEN l["pids"] ELSE 0,
     quota |-> IF l["cpus"] > 0 THEN Quota(l["cpus"]) ELSE 0]

\* Without a scope libcontainer goes on without a cgroup, but it fails on any
\* limit that it cannot write; with one it needs the session that makes it.
Startable(cgroup, session) ==
    IF cgroup.systemd THEN session
    ELSE cgroup.memory = 0 /\ cgroup.pids = 0 /\ cgroup.quota = 0
=============================================================================
