--------------------------------- MODULE Bone ---------------------------------
(***************************************************************************)
(* bone/bone.cpp: runs a program, rebuilds and restarts it when its source *)
(* changes.  Two threads share pid, isExecuting and the terminal: main     *)
(* waits for the program and then reads keys, the monitor kills, compiles  *)
(* and spawns.  A spawned program is a process of its own from fork on.    *)
(*                                                                         *)
(* Sources and executables are numbered by the edit they hold; srcNewer is *)
(* the comparison of the two files' times.  owner is the program whose     *)
(* group is the terminal's foreground group, 0 for bone's.  giveTTY and    *)
(* getTTY are one step each: their attributes go with the owner, and the   *)
(* window in which getTTY ignores SIGTTOU is not modelled.  fork and the   *)
(* assignment of its result to pid are one step, too.                      *)
(*                                                                         *)
(* Not modelled: a program that handles SIGTERM, a user who deletes the    *)
(* executable, and the compiler as a child that waitpid(-1) may reap.      *)
(***************************************************************************)
EXTENDS Integers, FiniteSets

CONSTANTS Habits,        \* the keys a user may type: subsets of {"r", "q"}
          MaxEdits,      \* bound on the edits of the source file
          MaxPrograms,   \* fork fails after as many
          Flawed,        \* may the source hold an error?
          Timely         \* do a program and main keep the usual times?  A program is
                   \* not ahead of its parent's giveTTY and ends at once when it
                   \* is killed; main is at the keys again before the compiler ends

ASSUME BoundsAssumption == Timely \in BOOLEAN /\ MaxEdits \in Nat /\ MaxPrograms \in Nat \ {0}

VARIABLES
    keys,                \* the keys that this user types
    bone,                \* the state of the process bone
    src, exec, srcNewer,
    building,            \* the edit that the compiler has read, or NotBuilt
    pid, isExecuting,    \* the Child that the threads share
    owner,
    forked,              \* the number of programs forked so far
    proc,                \* the state of each program
    pc,                  \* where main and the monitor are
    waited,              \* the pid that main waits for
    ran                  \* the edits that have been executed

fileVars == <<src, exec, srcNewer, building>>
procVars == <<keys, forked, proc>>
vars == <<bone, fileVars, pid, isExecuting, owner, procVars, pc, waited, ran>>

Threads == {"main", "monitor"}
Programs == 1 .. MaxPrograms
Any == -1        \* a fork that failed; for kill and waitpid, every process
NotBuilt == -1

Init == /\ keys \in Habits /\ bone = "runs" /\ src = 0 /\ exec = 0 /\ srcNewer = FALSE /\ building = NotBuilt
        /\ pid = 0 /\ isExecuting = FALSE /\ owner = 0 /\ forked = 0
        /\ proc = [k \in Programs |-> "none"]
        /\ pc = [t \in Threads |-> IF t = "main" THEN "spawn" ELSE "off"]
        /\ waited = 0 /\ ran = {}

Goto(t, where) == pc' = [pc EXCEPT ![t] = where]
Active(k) == proc[k] \in {"forked", "runs"}

-----------------------------------------------------------------------------
(* Child::spawn, by either thread.                                         *)

\* Where a thread goes on when spawn returns.
After(t) == IF t = "monitor" THEN "watch"
            ELSE IF pc["monitor"] = "off" THEN "dispatch" ELSE "keys"

SpawnTest(t) ==
    /\ pc[t] = "spawn" /\ Goto(t, IF isExecuting THEN After(t) ELSE "claim")
    /\ UNCHANGED <<bone, fileVars, pid, isExecuting, owner, procVars, waited, ran>>

SpawnClaim(t) ==
    /\ pc[t] = "claim" /\ isExecuting' = TRUE /\ Goto(t, "fork")
    /\ UNCHANGED <<bone, fileVars, pid, owner, procVars, waited, ran>>

SpawnFork_Local(t) ==    \* into a variable of spawn's own
    /\ pc[t] = "fork"
    /\ \/ /\ forked < MaxPrograms /\ forked' = forked + 1
          /\ proc' = [proc EXCEPT ![forked'] = "forked"] /\ Goto(t, "give")
       \/ /\ forked = MaxPrograms /\ Goto(t, After(t))
          /\ UNCHANGED <<forked, proc>>
    /\ UNCHANGED <<keys, bone, fileVars, pid, isExecuting, owner, waited, ran>>
SpawnFork(t) ==
    /\ pc[t] = "fork"
    /\ \/ /\ forked < MaxPrograms /\ forked' = forked + 1 /\ pid' = forked'
          /\ proc' = [proc EXCEPT ![forked'] = "forked"] /\ Goto(t, "give")
       \/ /\ forked = MaxPrograms /\ pid' = Any /\ Goto(t, After(t))
          /\ UNCHANGED <<forked, proc>>
    /\ UNCHANGED <<keys, bone, fileVars, isExecuting, owner, waited, ran>>

\* A process outside of the foreground group that changes the terminal is
\* stopped by SIGTTOU: bone here, the program in Exec.
GiveTTY(t) ==
    /\ pc[t] = "give"
    /\ IF owner # 0 THEN bone' = "stopped" /\ UNCHANGED <<owner, pc>>
       ELSE /\ owner' = IF pid \in Programs /\ proc[pid] # "reaped" THEN pid ELSE owner
            /\ Goto(t, After(t)) /\ UNCHANGED bone
    /\ UNCHANGED <<fileVars, pid, isExecuting, procVars, waited, ran>>

-----------------------------------------------------------------------------
(* The programs, and the user.                                             *)

Undisturbed == Timely => \A t \in Threads : pc[t] \notin {"give", "kill"}

\* The new process: setpgid, tcsetpgrp and execl.
Exec(k) ==
    /\ proc[k] = "forked" /\ Undisturbed
    /\ IF owner # k THEN proc' = [proc EXCEPT ![k] = "stopped"] /\ UNCHANGED ran
       ELSE \/ proc' = [proc EXCEPT ![k] = "runs"] /\ ran' = ran \cup {exec}
            \/ /\ building # NotBuilt      \* the executable is being written
               /\ proc' = [proc EXCEPT ![k] = "dead"] /\ UNCHANGED ran
    /\ UNCHANGED <<bone, fileVars, pid, isExecuting, owner, keys, forked, pc, waited>>

Exit(k) ==
    /\ proc[k] = "runs" /\ proc' = [proc EXCEPT ![k] = "dead"]
    /\ UNCHANGED <<bone, fileVars, pid, isExecuting, owner, keys, forked, pc, waited, ran>>

\* SIGTTIN.
ReadInBackground(k) ==
    /\ proc[k] = "runs" /\ owner # k /\ Undisturbed
    /\ proc' = [proc EXCEPT ![k] = "stopped"]
    /\ UNCHANGED <<bone, fileVars, pid, isExecuting, owner, keys, forked, pc, waited, ran>>

Edit == /\ src < MaxEdits /\ src' = src + 1 /\ srcNewer' = TRUE
        /\ UNCHANGED <<bone, exec, building, pid, isExecuting, owner, procVars, pc, waited, ran>>

-----------------------------------------------------------------------------
(* The thread of dispatchMonitor.                                          *)

\* respawn(compile): getTTY, ...
Watch_Executing ==       \* only while a program runs
    /\ pc["monitor"] = "watch" /\ srcNewer /\ isExecuting
    /\ owner' = 0 /\ Goto("monitor", "kill")
    /\ UNCHANGED <<bone, fileVars, pid, isExecuting, procVars, waited, ran>>
Watch ==
    /\ pc["monitor"] = "watch" /\ srcNewer
    /\ owner' = 0 /\ Goto("monitor", "kill")
    /\ UNCHANGED <<bone, fileVars, pid, isExecuting, procVars, waited, ran>>

\* ... despawn: SIGTERM ends a program, but not while it is stopped, ...
Kill ==
    /\ pc["monitor"] = "kill" /\ Goto("monitor", "despawn")
    /\ proc' = [k \in Programs |-> IF pid \in {k, Any} /\ Active(k) THEN "dead" ELSE proc[k]]
    /\ UNCHANGED <<bone, fileVars, pid, isExecuting, owner, keys, forked, waited, ran>>

Despawn_Executing ==     \* the flag left to main
    /\ pc["monitor"] = "despawn" /\ Goto("monitor", "compile")
    /\ UNCHANGED <<bone, fileVars, pid, isExecuting, owner, procVars, waited, ran>>
Despawn ==
    /\ pc["monitor"] = "despawn" /\ isExecuting' = FALSE /\ Goto("monitor", "compile")
    /\ UNCHANGED <<bone, fileVars, pid, owner, procVars, waited, ran>>

\* ... compile.start() and spawn.
Compile ==
    /\ pc["monitor"] = "compile" /\ building' = src /\ Goto("monitor", "link")
    /\ UNCHANGED <<bone, src, exec, srcNewer, pid, isExecuting, owner, procVars, waited, ran>>

\* main has seen the end of the program it waits for.
MainReacted == /\ pc["main"] \notin {"manage", "terminal", "compare", "clear"}
               /\ pc["main"] = "wait" => waited \in Programs /\ proc[waited] \in {"forked", "runs", "stopped"}

Link ==
    /\ pc["monitor"] = "link" /\ building' = NotBuilt
    /\ Timely => MainReacted
    /\ \/ exec' = building /\ srcNewer' = FALSE /\ Goto("monitor", "spawn") /\ UNCHANGED bone
       \/ Flawed /\ bone' = "exited" /\ UNCHANGED <<exec, srcNewer, pc>>
    /\ UNCHANGED <<src, pid, isExecuting, owner, procVars, waited, ran>>

-----------------------------------------------------------------------------
(* main: boneManager and interactiveMode.                                  *)

DispatchMonitor ==
    /\ pc["main"] = "dispatch"
    /\ pc' = [t \in Threads |-> IF t = "main" THEN "manage" ELSE "watch"]
    /\ UNCHANGED <<bone, fileVars, pid, isExecuting, owner, procVars, waited, ran>>

Manage ==
    /\ pc["main"] = "manage" /\ waited' = pid /\ Goto("main", "wait")
    /\ UNCHANGED <<bone, fileVars, pid, isExecuting, owner, procVars, ran>>

\* waitpid returns at once when there is no such child any more.
WaitPid ==
    /\ pc["main"] = "wait" /\ Goto("main", "terminal")
    /\ LET mine == {k \in Programs : waited \in {k, Any} /\ proc[k] \notin {"none", "reaped"}} IN
       \/ mine = {} /\ UNCHANGED proc
       \/ \E k \in mine : proc[k] = "dead" /\ proc' = [proc EXCEPT ![k] = "reaped"]
    /\ UNCHANGED <<bone, fileVars, pid, isExecuting, owner, keys, forked, waited, ran>>

GetTTY ==
    /\ pc["main"] = "terminal" /\ owner' = 0 /\ Goto("main", "compare")
    /\ UNCHANGED <<bone, fileVars, pid, isExecuting, procVars, waited, ran>>

Compare ==
    /\ pc["main"] = "compare"
    /\ Goto("main", IF ~isExecuting THEN "keys" ELSE IF waited # pid THEN "manage" ELSE "clear")
    /\ UNCHANGED <<bone, fileVars, pid, isExecuting, owner, procVars, waited, ran>>

Clear_Not ==             \* the flag left to the monitor
    /\ pc["main"] = "clear" /\ Goto("main", "keys")
    /\ UNCHANGED <<bone, fileVars, pid, isExecuting, owner, procVars, waited, ran>>
Clear ==
    /\ pc["main"] = "clear" /\ isExecuting' = FALSE /\ Goto("main", "keys")
    /\ UNCHANGED <<bone, fileVars, pid, owner, procVars, waited, ran>>

InteractiveTest ==
    /\ pc["main"] = "keys"
    /\ Goto("main", IF ~isExecuting /\ owner = 0 THEN "pause" ELSE "manage")
    /\ UNCHANGED <<bone, fileVars, pid, isExecuting, owner, procVars, waited, ran>>

\* After a pause, whose terminal is it now?
PauseTest ==
    /\ pc["main"] = "pause" /\ Goto("main", IF owner # 0 THEN "manage" ELSE "read")
    /\ UNCHANGED <<bone, fileVars, pid, isExecuting, owner, procVars, waited, ran>>

\* SIGTTIN, if the monitor has given the terminal away since.  Nothing typed,
\* or a key that changes nothing, leads back to the first test.
ReadKey ==
    /\ pc["main"] = "read"
    /\ IF owner # 0 THEN bone' = "stopped" /\ UNCHANGED pc
       ELSE \/ Goto("main", "keys") /\ UNCHANGED bone
            \/ "r" \in keys /\ Goto("main", "spawn") /\ UNCHANGED bone
            \/ "q" \in keys /\ bone' = "exited" /\ UNCHANGED pc
    /\ UNCHANGED <<fileVars, pid, isExecuting, owner, procVars, waited, ran>>

-----------------------------------------------------------------------------
Spawn(t) == SpawnTest(t) \/ SpawnClaim(t) \/ SpawnFork(t) \/ GiveTTY(t)

Monitor == bone = "runs" /\ (Watch \/ Kill \/ Despawn \/ Compile \/ Link \/ Spawn("monitor"))

Main == bone = "runs" /\ (\/ DispatchMonitor \/ Manage \/ WaitPid \/ GetTTY \/ Compare
                          \/ Clear \/ InteractiveTest \/ PauseTest \/ ReadKey \/ Spawn("main"))

Program(k) == Exec(k) \/ Exit(k) \/ ReadInBackground(k)

Next == \/ Monitor \/ Main \/ Edit \/ \E k \in Programs : Program(k)

Spec == Init /\ [][Next]_vars

\* The threads and the new processes run; a program need not exit.
FairSpec == /\ Spec /\ WF_vars(Monitor) /\ WF_vars(Main)
            /\ \A k \in Programs : WF_vars(Exec(k))

-----------------------------------------------------------------------------
(* Every variable has its type.                                            *)
TypeOK == /\ keys \in Habits /\ bone \in {"runs", "stopped", "exited"}
          /\ src \in 0 .. MaxEdits /\ exec \in 0 .. MaxEdits /\ srcNewer \in BOOLEAN
          /\ building \in NotBuilt .. MaxEdits
          /\ pid \in Any .. MaxPrograms /\ isExecuting \in BOOLEAN
          /\ owner \in 0 .. MaxPrograms /\ forked \in 0 .. MaxPrograms
          /\ proc \in [Programs -> {"none", "forked", "runs", "stopped", "dead", "reaped"}]
          /\ pc \in [Threads -> {"off", "spawn", "claim", "fork", "give", "watch", "kill",
                                 "despawn", "compile", "link", "dispatch", "manage", "wait",
                                 "terminal", "compare", "clear", "keys", "pause", "read"}]
          /\ waited \in Any .. MaxPrograms /\ ran \in SUBSET (0 .. MaxEdits)

\* A rebuild replaces the program: with a user who does not restart it by
\* key there is never more than one, and it is the one the threads know of.
\* The types (TypeOK) are kept with it.
Tracked == TypeOK /\ (keys = {} => \A k \in Programs : Active(k) => k = pid)

\* A thread or a program was stopped for using the terminal from the
\* background, or bone has exited: nothing continues it.
Hung == bone # "runs" \/ \E k \in Programs : proc[k] = "stopped"

\* An edit that the monitor sees while no compiler runs is built, whatever
\* the user types, the programs do and the forks fail.
Rebuilds == \A v \in 0 .. MaxEdits :
    (src = v /\ srcNewer /\ building = NotBuilt) ~> (exec = v \/ src > v \/ bone # "runs")

\* Every edit is built.
Rebuilt == \A v \in 0 .. MaxEdits : (src = v) ~> (exec = v \/ src > v \/ bone # "runs")

\* Every executable is executed unless it is replaced, something hangs, a
\* fork has failed, or the user has restarted the program by key.
Executes == \A v \in 0 .. MaxEdits :
    (keys = {} /\ exec = v) ~> (v \in ran \/ exec > v \/ Hung \/ pid = Any)

\* Every executable is executed unless it is replaced, or bone exits.
AlwaysExecutes == \A v \in 0 .. MaxEdits : (exec = v) ~> (v \in ran \/ exec > v \/ bone # "runs")

\* When the program has ended, main reads keys, or a new program is there; and
\* it does not keep the terminal.
Prompt == \A k \in Programs :
    /\ (proc[k] = "dead" /\ pid = k) ~> (pc["main"] = "read" \/ pid # k \/ Hung)
    /\ (proc[k] = "dead" /\ owner = k) ~> (owner # k \/ Hung)
=============================================================================
