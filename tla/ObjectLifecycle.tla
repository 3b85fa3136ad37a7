---------------------------- MODULE ObjectLifecycle ----------------------------
(***************************************************************************)
(* What the kernel promises the users of an object (the state diagram in   *)
(* src/kernel/objects.c and the comments on exclusive use in sendmsg.c):   *)
(* an object is set up by its creator, is then used by one thread at a     *)
(* time, and is destroyed once, by a thread that has it to itself.         *)
(***************************************************************************)
EXTENDS Naturals

CONSTANTS Threads, Handles, NoThread

VARIABLES phase,  \* handle -> where the object there is in its life
          user,   \* handle -> the thread that the object is working for
          id      \* handle -> identity of the object, 0 if there is none

lvars == <<phase, user, id>>

Init ==
  /\ phase = [h \in Handles |-> "free"]
  /\ user = [h \in Handles |-> NoThread]
  /\ id = [h \in Handles |-> 0]

Create(h) ==
  /\ phase[h] = "free"
  /\ phase' = [phase EXCEPT ![h] = "initialising"]
  /\ id' = [id EXCEPT ![h] = id'[h]]
  /\ id'[h] # 0 /\ \A k \in Handles : id[k] # id'[h]
  /\ UNCHANGED user

(* A DESTROY that arrives too early is remembered.                         *)
Doom(h) ==
  /\ phase[h] = "initialising"
  /\ phase' = [phase EXCEPT ![h] = "doomed"]
  /\ UNCHANGED <<user, id>>

Open(h) ==
  /\ phase[h] = "initialising"
  /\ phase' = [phase EXCEPT ![h] = "ready"]
  /\ UNCHANGED <<user, id>>

Enter(h, t) ==
  /\ phase[h] = "ready" /\ user[h] = NoThread
  /\ user' = [user EXCEPT ![h] = t]
  /\ UNCHANGED <<phase, id>>

Leave(h) ==
  /\ phase[h] = "ready" /\ user[h] # NoThread
  /\ user' = [user EXCEPT ![h] = NoThread]
  /\ UNCHANGED <<phase, id>>

Kill(h, t) ==
  /\ phase[h] \in {"ready", "doomed"} /\ user[h] = NoThread
  /\ phase' = [phase EXCEPT ![h] = "dying"]
  /\ user' = [user EXCEPT ![h] = t]
  /\ UNCHANGED id

Remove(h) ==
  /\ phase[h] = "dying"
  /\ phase' = [phase EXCEPT ![h] = "free"]
  /\ user' = [user EXCEPT ![h] = NoThread]
  /\ id' = [id EXCEPT ![h] = 0]

Next ==
  \E h \in Handles :
     \/ Create(h) \/ Doom(h) \/ Open(h) \/ Leave(h) \/ Remove(h)
     \/ \E t \in Threads : Enter(h, t) \/ Kill(h, t)

Spec == Init /\ [][Next]_lvars
=============================================================================
