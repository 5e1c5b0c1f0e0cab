------------------------------- MODULE RegistryMap -------------------------------
(***************************************************************************)
(* class registry as it is written: a std::map<int, string, greater<int>>, *)
(* modelled as the sequence of its entries in the map's order.             *)
(***************************************************************************)
EXTENDS Registry, Sequences, SequencesExt

VARIABLES
  registrations,  \* the entries, highest priority first
  result          \* what the last call returned

vars == <<registrations, result>>

Entry == [priority : Priorities, name : Names]

Indices == 1..Len(registrations)

\* The first entry that does not come before key p, or end().
LowerBound(p) ==
  LET reached == {i \in Indices : registrations[i].priority <= p}
  IN  IF reached = {} THEN Len(registrations) + 1
      ELSE CHOOSE i \in reached : \A j \in reached : i <= j

IsEnd(i) == i = Len(registrations) + 1

Init == registrations = << >> /\ result = << >>

\* map::insert keeps the entry that is already there.
add(p, n) ==
  LET pos == LowerBound(p)
      fails == \/ p > MaxPriority \/ p < MinPriority
               \/ ~IsEnd(pos) /\ registrations[pos].priority = p
  IN  /\ registrations' =
           IF fails THEN registrations
           ELSE InsertAt(registrations, pos, [priority |-> p, name |-> n])
      /\ result' = <<"add", ~fails>>

get(p) ==
  LET pos == LowerBound(p)
  IN  /\ result' = IF IsEnd(pos) THEN <<"get", NoPriority, NoPlugin>>
                   ELSE <<"get", registrations[pos].priority,
                                 registrations[pos].name>>
      /\ UNCHANGED registrations

\* One round of the loop: find_if, and erase unless it is at the end.
EraseFirst(s, n) ==
  LET found == {i \in 1..Len(s) : s[i].name = n}
  IN  IF found = {} THEN s
      ELSE RemoveAt(s, CHOOSE i \in found : \A j \in found : i <= j)

\* Mutant: the loop stops after one round.
remove_first(n) ==
  /\ registrations' = EraseFirst(registrations, n)
  /\ result' = <<"removeall">>

\* The entries after so many rounds.
AfterRounds(s, n) ==
  LET erased[k \in 0..Len(s)] ==
        IF k = 0 THEN s ELSE EraseFirst(erased[k - 1], n)
  IN  erased

\* Erases the first entry of this name until there is none.
removeall(n) ==
  /\ registrations' = AfterRounds(registrations, n)[Len(registrations)]
  /\ result' = <<"removeall">>

Next ==
  \/ \E p \in NoPriority..InitialPriority :
       get(p) \/ \E n \in Names : add(p, n)
  \/ \E n \in Names : removeall(n)

Spec == Init /\ [][Next]_vars

-------------------------------------------------------------------------------
(* The function that entries stand for.                                    *)
FunctionOf(entries) ==
  [p \in Priorities |->
     IF \E i \in 1..Len(entries) : entries[i].priority = p
     THEN entries[CHOOSE i \in 1..Len(entries) : entries[i].priority = p].name
     ELSE NoPlugin]

AsFunction == FunctionOf(registrations)

(* The map, with its lower_bound under greater<int> and its erasing loop,  *)
(* implements the registry that the core is modelled with.                 *)
Service == INSTANCE RegistryService WITH reg <- AsFunction

ImplementsService == Service!Spec

(* Asking for the priority below the one just served, as a chain of        *)
(* echoes does, visits every registered plugin once, highest first: each   *)
(* question is answered with the next entry of the map, the last with none.*)
EchoVisitsAll ==
  \A i \in 1..(Len(registrations) + 1) :
    LET asked == IF i = 1 THEN InitialPriority ELSE registrations[i - 1].priority - 1
        answer == GetPriority(AsFunction, asked)
    IN  IF IsEnd(i) THEN answer = NoPriority
        ELSE answer = registrations[i].priority /\ AsFunction[answer] = registrations[i].name

===============================================================================
