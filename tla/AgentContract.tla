---------------------------- MODULE AgentContract ----------------------------
(***************************************************************************)
(* What the agents promise about the state objects they keep: the abstract *)
(* specification of BpfAgent that the operator, which only ever reads      *)
(* conditions and finalizers, relies on.                                   *)
(***************************************************************************)
CONSTANTS
  Names,   \* names of state objects
  None     \* absent object

VARIABLE obj  \* the state objects in the API server

\* Types of a condition the API server accepts; "NoCond" is an empty list.
Conds == {"NoCond", "Pending", "Success", "Error", "UnloadError", "Unloaded"}

\* busy: the object records the id of a program.
Obj == [cond : Conds, finalizer : BOOLEAN, deleting : BOOLEAN, busy : BOOLEAN]

Init == obj = [s \in Names |-> None]

\* An agent creates the object with its finalizer and an empty status.
Create(s) ==
  /\ obj[s] = None
  /\ obj' = [obj EXCEPT ![s] = [cond |-> "NoCond", finalizer |-> TRUE,
                                deleting |-> FALSE, busy |-> FALSE]]

\* An agent writes the status.  Pending is the first status only, and program
\* ids are recorded only under the protection of the finalizer.
Report(s, c, b) ==
  /\ obj[s] # None /\ c # "NoCond"
  /\ c = "Pending" => obj[s].cond = "NoCond" /\ ~b
  /\ b => obj[s].finalizer
  /\ obj' = [obj EXCEPT ![s].cond = c, ![s].busy = b]

\* An agent gives its finalizer back: the status no longer records a program
\* and does not speak of a failure.  An object being deleted then goes.
Release(s) ==
  /\ obj[s] # None /\ obj[s].finalizer /\ ~obj[s].busy
  /\ obj[s].cond \in {"Success", "Unloaded"}
  /\ obj' = [obj EXCEPT ![s] = IF @.deleting THEN None ELSE [@ EXCEPT !.finalizer = FALSE]]

\* The garbage collector deletes the object; a finalizer holds it.
Collect(s) ==
  /\ obj[s] # None /\ (obj[s].finalizer => ~obj[s].deleting)
  /\ obj' = [obj EXCEPT ![s] = IF @.finalizer THEN [@ EXCEPT !.deleting = TRUE] ELSE None]

Next ==
  \E s \in Names : \/ Create(s) \/ Release(s) \/ Collect(s)
                   \/ \E c \in Conds, b \in BOOLEAN : Report(s, c, b)

Spec == Init /\ [][Next]_obj

=============================================================================
