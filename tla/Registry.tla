-------------------------------- MODULE Registry --------------------------------
(***************************************************************************)
(* class registry (include/lirch/core/registry.h): for one message type,   *)
(* which plugin is registered at which priority.  A registry is a function *)
(* from the valid priorities to a plugin name or NoPlugin.                 *)
(***************************************************************************)
EXTENDS Integers

CONSTANTS
  Names,         \* plugin names
  NoPlugin,      \* the empty name, "nobody is registered here"
  MinPriority,   \* -32766 in the code
  MaxPriority    \*  32766 in the code

ASSUME RegistryAssumption ==
  /\ MinPriority \in Int
  /\ MaxPriority \in Int
  /\ NoPlugin \notin Names

Priorities == MinPriority..MaxPriority

InitialPriority == MaxPriority + 1   \* message::initial_priority
NoPriority == MinPriority - 1        \* what get() answers when nothing is left

Registries == [Priorities -> Names \cup {NoPlugin}]

EmptyRegistry == [p \in Priorities |-> NoPlugin]

RegisteredAt(r) == {p \in Priorities : r[p] # NoPlugin}

\* Mutant: the bounds are checked, but the entry is overwritten.
CanAddOver(r, p) == p \in Priorities

\* add() fails for a priority out of bounds and for one that is taken.
CanAdd(r, p) == p \in Priorities /\ r[p] = NoPlugin

Add(r, p, name) == IF CanAdd(r, p) THEN [r EXCEPT ![p] = name] ELSE r

\* Mutant: upper_bound instead of lower_bound, an equal priority is skipped.
AtMostExclusive(r, p) == {q \in RegisteredAt(r) : q < p}

\* The entries lower_bound(p) can reach: the map is ordered by greater<int>.
AtMost(r, p) == {q \in RegisteredAt(r) : q <= p}

\* q is the priority of the entry that get(p) returns.
IsNext(q, r, p) ==
  /\ q \in AtMost(r, p)
  /\ \A s \in AtMost(r, p) : s <= q

GetPriority(r, p) ==
  IF AtMost(r, p) = {}
  THEN NoPriority
  ELSE CHOOSE q \in AtMost(r, p) : IsNext(q, r, p)

RemoveAll(r, name) ==
  [p \in Priorities |-> IF r[p] = name THEN NoPlugin ELSE r[p]]

===============================================================================
