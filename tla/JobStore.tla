------------------------------ MODULE JobStore ------------------------------
(***************************************************************************)
(* What the job queue promises its callers, without rows, workers, owners  *)
(* or heartbeats: a job is put once, taken by somebody, put back or closed *)
(* by whoever took it last, and a closed job is closed for good.           *)
(***************************************************************************)
EXTENDS Naturals

CONSTANT Jobs

VARIABLES
    state,    \* "absent", "pending", "running" or how the job was closed
    takes,    \* how often the job has been taken
    closer    \* the take that completed or failed it

store == <<state, takes, closer>>

Init ==
    /\ state = [j \in Jobs |-> "absent"]
    /\ takes = [j \in Jobs |-> 0]
    /\ closer = [j \in Jobs |-> 0]

Put(j) ==
    /\ state[j] = "absent"
    /\ state' = [state EXCEPT ![j] = "pending"]
    /\ UNCHANGED <<takes, closer>>

Take(j) ==
    /\ state[j] = "pending"
    /\ state' = [state EXCEPT ![j] = "running"]
    /\ takes' = [takes EXCEPT ![j] = @ + 1]
    /\ UNCHANGED closer

(* Jobs that were taken, one or many, are offered again. *)
PutBack(S) ==
    /\ \A j \in S : state[j] = "running"
    /\ state' = [j \in Jobs |-> IF j \in S THEN "pending" ELSE state[j]]
    /\ UNCHANGED <<takes, closer>>

(* The outcome is that of the latest take and of no earlier one. *)
Close(j, outcome) ==
    /\ state[j] = "running"
    /\ state' = [state EXCEPT ![j] = outcome]
    /\ closer' = [closer EXCEPT ![j] = takes[j]]
    /\ UNCHANGED takes

Withdraw(j) ==
    /\ state[j] \in {"pending", "running"}
    /\ state' = [state EXCEPT ![j] = "cancelled"]
    /\ UNCHANGED <<takes, closer>>

Next ==
    \/ \E S \in SUBSET Jobs : PutBack(S)
    \/ \E j \in Jobs :
          \/ Put(j) \/ Take(j) \/ Withdraw(j)
          \/ \E outcome \in {"completed", "failed"} : Close(j, outcome)

Spec == Init /\ [][Next]_store
=============================================================================
