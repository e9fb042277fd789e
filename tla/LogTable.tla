------------------------------ MODULE LogTable ------------------------------
(***************************************************************************)
(* What configuring the log promises, without lists, their order and       *)
(* Level::Global: a draft of settings, and for every logger a table with a *)
(* value for every setting.  Applying the draft overrides its settings in  *)
(* the tables of all the loggers and leaves the rest as it was.            *)
(***************************************************************************)
EXTENDS Naturals

CONSTANTS
  Given      \* the settings that the command line can make

VARIABLES
  draft,     \* the settings prepared so far, a function on some settings
  table,     \* table[g]: the value of every setting for logger g
  applied    \* how often settings were applied

vars == <<draft, table, applied>>

Overridden(by) ==
  [g \in DOMAIN table |-> [e \in DOMAIN table[g] |-> IF e \in DOMAIN by THEN by[e] ELSE table[g][e]]]

Init == draft = <<>> /\ applied = 0

(* Settings are added to the draft or replaced in it.                      *)
Prepare == DOMAIN draft \subseteq DOMAIN draft' /\ UNCHANGED <<table, applied>>

Clear == draft' = <<>> /\ UNCHANGED <<table, applied>>

ApplyThis(by) == table' = Overridden(by) /\ applied' = applied + 1 /\ UNCHANGED draft

Apply == ApplyThis(draft)

ApplyArguments == \E by \in Given : ApplyThis(by)

Next == Prepare \/ Clear \/ Apply \/ ApplyArguments

Spec == Init /\ [][Next]_vars
=============================================================================
