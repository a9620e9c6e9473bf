------------------------------ MODULE RemoteCall ------------------------------
(***************************************************************************)
(* What the rest of the SDK may assume of one logical call of the Clinic   *)
(* API (transport.doJSON, transport.doBytes), whatever the network does:   *)
(*                                                                         *)
(*   - the request is issued at most MaxAttempts times, and never again    *)
(*     once the caller has its answer;                                     *)
(*   - the backend serves each issued copy at most once, possibly after    *)
(*     the caller was told the outcome, and in any order;                  *)
(*   - success is reported only when the copy issued last was served;      *)
(*   - failure says nothing about what the backend did.                    *)
(*                                                                         *)
(* Transport refines this module.  CatalogReadiness relies on it: a        *)
(* rebuild request may reach the backend several times, and late.          *)
(***************************************************************************)
EXTENDS Integers

CONSTANT MaxAttempts   \* how many copies of the request a call may issue

VARIABLES
  issued,    \* number of copies issued so far
  served,    \* the copies the backend has served
  outcome    \* what the caller was told

vars == <<issued, served, outcome>>

Attempt == 1 .. MaxAttempts

TypeOK ==
  /\ issued \in 0 .. MaxAttempts
  /\ served \in SUBSET Attempt
  /\ outcome \in {"pending", "ok", "failed"}

Init ==
  /\ issued = 0
  /\ served = {}
  /\ outcome = "pending"

Issue ==
  /\ outcome = "pending"
  /\ issued < MaxAttempts
  /\ issued' = issued + 1
  /\ UNCHANGED <<served, outcome>>

Serve(n) ==
  /\ n <= issued
  /\ n \notin served
  /\ served' = served \cup {n}
  /\ UNCHANGED <<issued, outcome>>

Succeed ==
  /\ outcome = "pending"
  /\ issued \in served
  /\ outcome' = "ok"
  /\ UNCHANGED <<issued, served>>

Fail ==
  /\ outcome = "pending"
  /\ issued > 0
  /\ outcome' = "failed"
  /\ UNCHANGED <<issued, served>>

Next ==
  \/ Issue
  \/ \E n \in Attempt : Serve(n)
  \/ Succeed
  \/ Fail

Spec == Init /\ [][Next]_vars
===============================================================================
