----------------------------- MODULE BoxService -----------------------------
(***************************************************************************)
(* What curimata promises about one box name, without saying how: at most  *)
(* one curimata process uses a name, at most one container command runs    *)
(* under a name, and a box loses files only while its user holds the name  *)
(* and no command runs under it.                                           *)
(*                                                                         *)
(* A command may outlive its user (a killed curimata leaves its container  *)
(* to the kernel), and an interrupted rm leaves a damaged box behind.      *)
(* BoxLifecycle implements this module.                                    *)
(***************************************************************************)
CONSTANTS Procs,    \* curimata processes
          Names,    \* box names
          Images,   \* image references
          None,     \* nobody
          Absent,   \* there is no box
          Damaged   \* a box some of whose files are gone

VARIABLES user,     \* user[n]: the process that uses name n, or None
          commands, \* commands[n]: the processes whose command runs under n
          box       \* box[n]: what the box of n holds

serviceVars == <<user, commands, box>>

ServiceInit ==
    /\ user = [n \in Names |-> None]
    /\ commands = [n \in Names |-> {}]
    /\ box = [n \in Names |-> Absent]

Take(n, p) ==
    /\ user[n] = None
    /\ user' = [user EXCEPT ![n] = p]
    /\ UNCHANGED <<commands, box>>

Leave(n) ==
    /\ user[n] # None
    /\ user' = [user EXCEPT ![n] = None]
    /\ UNCHANGED <<commands, box>>

\* A command may run meanwhile: that of a killed curimata, whose rootfs was
\* a directory given on its command line.
Install(n, i) ==
    /\ user[n] # None
    /\ box[n] = Absent
    /\ box' = [box EXCEPT ![n] = i]
    /\ UNCHANGED <<user, commands>>

\* Removing is not atomic: the box loses files first and is gone last.
Damage(n) ==
    /\ user[n] # None
    /\ commands[n] = {}
    /\ box[n] # Absent
    /\ box' = [box EXCEPT ![n] = Damaged]
    /\ UNCHANGED <<user, commands>>

Remove(n) ==
    /\ user[n] # None
    /\ commands[n] = {}
    /\ box[n] # Absent
    /\ box' = [box EXCEPT ![n] = Absent]
    /\ UNCHANGED <<user, commands>>

StartCommand(n) ==
    /\ user[n] # None
    /\ commands[n] = {}
    /\ commands' = [commands EXCEPT ![n] = {user[n]}]
    /\ UNCHANGED <<user, box>>

EndCommand(n) ==
    /\ commands[n] # {}
    /\ commands' = [commands EXCEPT ![n] = {}]
    /\ UNCHANGED <<user, box>>

ServiceNext ==
    \E n \in Names :
        \/ \E p \in Procs : Take(n, p)
        \/ Leave(n)
        \/ \E i \in Images : Install(n, i)
        \/ Damage(n)
        \/ Remove(n)
        \/ StartCommand(n)
        \/ EndCommand(n)

Service == ServiceInit /\ [][ServiceNext]_serviceVars
=============================================================================
