------------------------------ MODULE Bone_proofs ------------------------------
(***************************************************************************)
(* That bone keeps track of its program, for any number of edits, programs *)
(* and habits of the user.  Without the key r main spawns only before the  *)
(* monitor exists (MainFirst), and whoever is about to fork has no program *)
(* left: the monitor has killed it, and none was there before main's       *)
(* (NoneLeft).                                                             *)
(***************************************************************************)
EXTENDS Bone, TLAPS

MainFirst == pc["main"] \in {"spawn", "claim", "fork", "give"} => pc["monitor"] = "off"

Forking(t) == pc[t] \in {"spawn", "claim", "fork"}
NoneLeft == Forking("main") \/ Forking("monitor") \/ pc["monitor"] \in {"despawn", "compile", "link"}
               => \A k \in Programs : ~Active(k)

\* What the compiler has read is an edit.
Reads == bone = "runs" /\ pc["monitor"] = "link" => building \in 0 .. MaxEdits

Only == \A k \in Programs : Active(k) => k = pid

IInv == /\ TypeOK /\ Reads
        /\ keys = {} => MainFirst /\ NoneLeft /\ Only

-----------------------------------------------------------------------------
LEMMA InitIInv == Init => IInv
  <1> SUFFICES ASSUME Init PROVE IInv
    OBVIOUS
  <1> USE BoundsAssumption DEF Init, Threads, Programs, NotBuilt, Any
  <1>1. pc["main"] = "spawn" /\ pc["monitor"] = "off"
    OBVIOUS
  <1>2. \A k \in Programs : ~Active(k)
    BY DEF Active
  <1>3. /\ 0 \in 0 .. MaxEdits /\ 0 \in 0 .. MaxPrograms
        /\ -1 \in -1 .. MaxEdits /\ 0 \in -1 .. MaxPrograms
    OBVIOUS
  <1>4. TypeOK
    BY <1>3 DEF TypeOK
  <1>5. QED BY <1>1, <1>2, <1>4 DEF IInv, Reads, MainFirst, NoneLeft, Only

LEMMA SpawnIInv == ASSUME NEW t \in Threads, IInv, Spawn(t) PROVE IInv'
  <1> USE BoundsAssumption DEF IInv, TypeOK, Reads, MainFirst, NoneLeft, Forking, Only, Active,
          Threads, Programs, NotBuilt, Any, Goto, After, fileVars, procVars
  <1>1. CASE SpawnTest(t) BY <1>1 DEF SpawnTest
  <1>2. CASE SpawnClaim(t) BY <1>2 DEF SpawnClaim
  <1>3. CASE SpawnFork(t) BY <1>3 DEF SpawnFork
  <1>4. CASE GiveTTY(t) BY <1>4 DEF GiveTTY
  <1>5. QED BY <1>1, <1>2, <1>3, <1>4 DEF Spawn

LEMMA MonitorIInv ==
  ASSUME IInv, bone = "runs", Watch \/ Kill \/ Despawn \/ Compile \/ Link
  PROVE  IInv'
  <1> USE BoundsAssumption DEF IInv, TypeOK, Reads, MainFirst, NoneLeft, Forking, Only, Active,
          Threads, Programs, NotBuilt, Any, Goto, fileVars, procVars
  <1>1. CASE Watch BY <1>1 DEF Watch
  <1>2. CASE Kill BY <1>2 DEF Kill
  <1>3. CASE Despawn BY <1>3 DEF Despawn
  <1>4. CASE Compile BY <1>4 DEF Compile
  <1>5. CASE Link
    <2>1. CASE bone' = "exited"
      BY <1>5, <2>1 DEF Link
    <2>2. CASE exec' = building /\ srcNewer' = FALSE /\ Goto("monitor", "spawn") /\ UNCHANGED bone
      <3>1. TypeOK'
        <4>1. exec' \in 0 .. MaxEdits
          BY <1>5, <2>2 DEF Link
        <4>2. building' \in -1 .. MaxEdits
          BY <1>5 DEF Link
        <4>3. pc' = [pc EXCEPT !["monitor"] = "spawn"]
          BY <2>2
        <4>4. UNCHANGED <<keys, bone, src, pid, isExecuting, owner, forked, proc, waited, ran>>
          BY <1>5, <2>2 DEF Link
        <4>5. srcNewer' \in BOOLEAN
          BY <2>2
        <4>6. QED BY <4>1, <4>2, <4>3, <4>4, <4>5
      <3>2. QED BY <1>5, <2>2, <3>1 DEF Link
    <2>3. QED BY <1>5, <2>1, <2>2 DEF Link
  <1>6. QED BY <1>1, <1>2, <1>3, <1>4, <1>5

LEMMA MainIInv ==
  ASSUME IInv, DispatchMonitor \/ Manage \/ WaitPid \/ GetTTY \/ Compare \/ Clear \/ InteractiveTest
                 \/ PauseTest \/ ReadKey
  PROVE  IInv'
  <1> USE BoundsAssumption DEF IInv, TypeOK, Reads, MainFirst, NoneLeft, Forking, Only, Active,
          Threads, Programs, NotBuilt, Any, Goto, fileVars, procVars
  <1>1. CASE DispatchMonitor BY <1>1 DEF DispatchMonitor
  <1>2. CASE Manage BY <1>2 DEF Manage
  <1>3. CASE WaitPid BY <1>3 DEF WaitPid
  <1>4. CASE GetTTY BY <1>4 DEF GetTTY
  <1>5. CASE Compare BY <1>5 DEF Compare
  <1>6. CASE Clear BY <1>6 DEF Clear
  <1>7. CASE InteractiveTest BY <1>7 DEF InteractiveTest
  <1>8. CASE PauseTest BY <1>8 DEF PauseTest
  <1>9. CASE ReadKey BY <1>9 DEF ReadKey
  <1>10. QED BY <1>1, <1>2, <1>3, <1>4, <1>5, <1>6, <1>7, <1>8, <1>9

LEMMA ProgramIInv == ASSUME NEW k \in Programs, IInv, Program(k) \/ Edit PROVE IInv'
  <1> USE BoundsAssumption DEF IInv, TypeOK, Reads, MainFirst, NoneLeft, Forking, Only, Active,
          Threads, Programs, NotBuilt, Any, fileVars, procVars
  <1>1. CASE Exec(k) BY <1>1 DEF Exec
  <1>2. CASE Exit(k) BY <1>2 DEF Exit
  <1>3. CASE ReadInBackground(k) BY <1>3 DEF ReadInBackground
  <1>4. CASE Edit BY <1>4 DEF Edit
  <1>5. QED BY <1>1, <1>2, <1>3, <1>4 DEF Program

LEMMA Inductive == Spec => []IInv
  <1>1. IInv /\ [Next]_vars => IInv'
    <2> SUFFICES ASSUME IInv, [Next]_vars PROVE IInv'
      OBVIOUS
    <2>1. CASE Monitor BY <2>1, MonitorIInv, SpawnIInv DEF Monitor, Threads
    <2>2. CASE Main BY <2>2, MainIInv, SpawnIInv DEF Main, Threads
    <2>3. CASE Edit
      <3>1. 1 \in Programs
        BY BoundsAssumption DEF Programs
      <3>2. QED BY <2>3, <3>1, ProgramIInv
    <2>4. ASSUME NEW k \in Programs, Program(k) PROVE IInv'
      BY <2>4, ProgramIInv
    <2>5. CASE UNCHANGED vars
      BY <2>5 DEF vars, fileVars, procVars, IInv, TypeOK, Reads, MainFirst, NoneLeft, Forking,
                  Only, Active
    <2>6. QED BY <2>1, <2>2, <2>3, <2>4, <2>5 DEF Next
  <1>2. QED BY InitIInv, <1>1, PTL DEF Spec

(* As long as the user does not restart it by key, there is never more than *)
(* one program, and it is the one whose pid the threads share; the types    *)
(* are kept too.  For any number of edits and of programs forked.           *)
THEOREM ProgramTracked == Spec => []Tracked
  <1>1. IInv => Tracked
    BY DEF IInv, Only, Tracked
  <1>2. QED BY Inductive, <1>1, PTL
=============================================================================
