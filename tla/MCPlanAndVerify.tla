---------------------------- MODULE MCPlanAndVerify ----------------------------
(* The two ends of a preparation in one run: from the catalog to the accepted   *)
(* plan (PrimaryHome), and the verification of a view (ViewWitness).  They share *)
(* no state, so a behaviour is of one or of the other.                           *)
EXTENDS PrimaryHome, ViewWitness, TLC

VARIABLE focus
vars == <<focus, cvars, wvars>>

Symmetry == Permutations(Users)

Resting ==
  /\ blob = NoFiles /\ view = NoView /\ cmd = [p \in Ops |-> Idle]
  /\ tick = 0 /\ hangups = 0
Uncataloged ==
  /\ disk = [n \in Nodes |-> NoTree] /\ attached = [v \in Revs |-> NoHome]
  /\ receipts = {} /\ topo = << >> /\ catalog = [homes |-> {}, sel |-> [v \in Revs |-> None]]
  /\ op = [u \in Users |-> AtRest] /\ changes = 0 /\ fresh = FALSE

Init == \/ focus = "plan" /\ CatalogInit /\ Resting
        \/ focus = "verify" /\ WitnessInit /\ Uncataloged
Next == \/ focus = "plan" /\ CatalogNext /\ UNCHANGED <<focus, wvars>>
        \/ focus = "verify" /\ WitnessNext /\ UNCHANGED <<focus, cvars>>
Spec == Init /\ [][Next]_vars
================================================================================
