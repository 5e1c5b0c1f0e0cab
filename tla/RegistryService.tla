---------------------------- MODULE RegistryService ----------------------------
(***************************************************************************)
(* What the core relies on when it calls a registry: a function from       *)
(* priorities to plugins, updated and asked with the operators of Registry.*)
(***************************************************************************)
EXTENDS Registry

VARIABLES
  reg,      \* the registry
  result    \* what the last call returned

serviceVars == <<reg, result>>

Init == reg = EmptyRegistry /\ result = << >>

AddEntry(p, n) ==
  /\ reg' = Add(reg, p, n)
  /\ result' = <<"add", CanAdd(reg, p)>>

RemoveAllEntries(n) ==
  /\ reg' = RemoveAll(reg, n)
  /\ result' = <<"removeall">>

Get(p) ==
  /\ LET q == GetPriority(reg, p)
     IN  result' = <<"get", q, IF q = NoPriority THEN NoPlugin ELSE reg[q]>>
  /\ UNCHANGED reg

Next ==
  \/ \E p \in NoPriority..InitialPriority :
       Get(p) \/ \E n \in Names : AddEntry(p, n)
  \/ \E n \in Names : RemoveAllEntries(n)

Spec == Init /\ [][Next]_serviceVars

===============================================================================
