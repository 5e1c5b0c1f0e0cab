-------------------------- MODULE ConversationCrashProofs --------------------------
(***************************************************************************)
(* The crashes of a client, for any texts, any names and any number of     *)
(* lines, macros, acts and sessions: it keeps the books.  For every word,  *)
(* the macros it has and the erasures are at least as many as the          *)
(* definitions, up to a line before which all commands about macros are    *)
(* carried out; those of the lines behind it are under way, and do not     *)
(* overtake each other, though each of them passes the queue of the        *)
(* meatgrinder twice.                                                      *)
(***************************************************************************)
EXTENDS ConversationProofs

MacroWords == {"/macro", "/macro_erase"}

Careful(t) == ~Mentioned(t, {"/macro", "/macro_erase", "/channel"})

\* Each macro for the word c, as often as it is there.
Copies(defs, c) == UNION {{<<d, j>> : j \in 1..defs[d]} : d \in Macros(defs, c)}

\* What the lines of the session s up to n ask for.
Defined(t, s, n, c) ==
  {k \in 1..n : /\ t[k].session = s
                /\ t[k].cmd = "/macro" /\ Len(t[k].args) > 2
                /\ t[k].args[1] = c}

Erased(t, s, n, c) ==
  {k \in 1..n : /\ t[k].session = s
                /\ t[k].cmd = "/macro_erase"
                /\ t[k].args # << >> /\ t[k].args[1] = c}

Balance(t, s, h, defs) ==
  \A c \in Channels :
    /\ IsFiniteSet(Copies(defs, c))
    /\ Cardinality(Defined(t, s, h, c)) <= Cardinality(Copies(defs, c)) + Cardinality(Erased(t, s, h, c))

\* m is on behalf of a command that was typed, and not made by a macro.
Direct(t, m) == m.kind \in {"raw_edict", "register_replacer"} /\ t[m.line].cmd \in MacroWords

\* It says what was typed; and a /macro that a macro made has an argument.
Faithful(t, m) ==
  /\ m.kind = "raw_edict" =>
       /\ t[m.line].cmd \in MacroWords => m.cmd = t[m.line].cmd /\ m.args = t[m.line].args
       /\ t[m.line].cmd \notin MacroWords /\ m.cmd = "/macro" => m.args # << >>
  /\ m.kind = "register_replacer" =>
       /\ m.line # 0
       /\ m.cmd = IF t[m.line].cmd = "/macro_erase" THEN "REMOVE" ELSE "ADD"
       /\ t[m.line].cmd \in MacroWords =>
            t[m.line].args # << >> /\ m.args[1] = t[m.line].args[1]

\* The message at i of the queue changes the macros before that at j does.
Sooner(q, i, j) ==
  \/ q[i].kind = "register_replacer" /\ q[j].kind = "raw_edict"
  \/ q[i].kind = q[j].kind /\ i < j

InTurn(t, h, q) ==
  /\ \A i \in 1..Len(q) : Direct(t, q[i]) => h < q[i].line
  /\ \A i, j \in 1..Len(q) :
       Direct(t, q[i]) /\ Direct(t, q[j]) /\ Sooner(q, i, j) => q[i].line < q[j].line

\* A definition is lost only to a quit, and then nothing later is carried out.
UnderWay(t, q, n, open) ==
  \/ \E i \in 1..Len(q) : Direct(t, q[i]) /\ q[i].line = n
  \/ /\ ~open
     /\ \A j \in 1..Len(q) :
          Direct(t, q[j]) /\ q[j].kind = "register_replacer" => q[j].line < n

IsDefinition(t, s, n) ==
  t[n].session = s /\ t[n].cmd = "/macro" /\ Len(t[n].args) > 2

AllUnderWay(t, s, h, q, open) ==
  \A n \in 1..Len(t) : h < n /\ IsDefinition(t, s, n) => UnderWay(t, q, n, open)

Books(t, s, q, defs, open) ==
  \E h \in 0..Len(t) :
    InTurn(t, h, q) /\ AllUnderWay(t, s, h, q, open) /\ Balance(t, s, h, defs)

\* There is no tab without a name, and none to come.
AllNamed(t, s) == \A n \in 1..Len(t) : t[n].session = s => ~Bare(t[n], "/channel")

Unasked(m) == m.kind = "set_channel" /\ m.channel = Blank /\ m.line = 0

Clean(pipes) == \A p \in Plugins : \A i \in 1..Len(pipes[p]) : ~Unasked(pipes[p][i])

NoBlankTab ==
  Qt /\ AllNamed(typed, session) =>
    Blank \notin tabs /\ Clean(pipe) /\ \A i \in 1..Len(events) : ~Unasked(events[i])

Excused(t, s, u) ==
  \E n \in 1..Len(t) :
    /\ t[n].session = s
    /\ \/ t[n].cmd \in MacroWords /\ t[n].args = << >>
       \/ /\ t[n].cmd = "/macro_erase" /\ t[n].args # << >>
          /\ Cardinality(Defined(t, s, n, t[n].args[1])) < Cardinality(Erased(t, s, n, t[n].args[1]))
       \/ u # "console" /\ Bare(t[n], "/channel")

AllFaithful(t, q) == \A i \in 1..Len(q) : Faithful(t, q[i])

WithArguments(defs) == \A d \in BagToSet(defs) : d.to = "/macro" => d.args # << >>

Sane ==
  /\ AllFaithful(typed, pipe["meatgrinder"]) /\ WithArguments(macros)
  /\ Books(typed, session, pipe["meatgrinder"], macros, phase = "running")
  /\ NoBlankTab

CrashInv ==
  /\ IsABag(macros)
  /\ Careful(typed) =>
       IF phase = "crashed" THEN Excused(typed, session, ui) ELSE Sane

LEMMA CopiesAre ==
  ASSUME NEW defs, NEW c
  PROVE  \A x : x \in Copies(defs, c) <=>
                  \E d \in BagToSet(defs) : \E j \in 1..defs[d] : d.command = c /\ x = <<d, j>>
BY DEF Copies, Macros

LEMMA PairsAre ==
  ASSUME NEW d, NEW j, NEW e, NEW k, <<d, j>> = <<e, k>>
  PROVE  d = e /\ j = k
OBVIOUS

LEMMA WithCopies ==
  ASSUME NEW defs, IsABag(defs), NEW d
  PROVE  /\ IsABag(With(defs, d))
         /\ \A c : \E x : /\ x \notin Copies(defs, c)
                          /\ Copies(With(defs, d), c) =
                               IF d.command = c THEN Copies(defs, c) \cup {x} ELSE Copies(defs, c)
<1> DEFINE more == With(defs, d)
           had == IF d \in DOMAIN defs THEN defs[d] ELSE 0
<1>1. /\ DOMAIN more = DOMAIN defs \cup {d} /\ BagToSet(more) = DOMAIN defs \cup {d}
      /\ BagToSet(defs) = DOMAIN defs
      /\ more[d] = had + 1
      /\ \A e \in DOMAIN defs : e # d => more[e] = defs[e]
      /\ \A e \in DOMAIN defs : defs[e] \in Nat /\ defs[e] > 0
      /\ more = [e \in DOMAIN more |-> more[e]]
  <2>1. \A e \in DOMAIN defs : defs[e] \in Nat /\ defs[e] > 0
    BY DEF IsABag
  <2> QED BY <2>1 DEF With, (+), BagToSet, SetToBag
<1>2. had \in Nat
  BY <1>1
<1> HIDE DEF more, had
<1>3. \A e \in DOMAIN more : more[e] \in Nat /\ more[e] > 0
  BY <1>1, <1>2
<1>4. IsABag(more)
  BY <1>1, <1>3 DEF IsABag
<1>5. ASSUME NEW c
      PROVE  \E x : /\ x \notin Copies(defs, c)
                    /\ Copies(more, c) = IF d.command = c THEN Copies(defs, c) \cup {x} ELSE Copies(defs, c)
  <2> DEFINE x == <<d, had + 1>>
  <2>1. x \notin Copies(defs, c)
    <3>1. ASSUME NEW e \in BagToSet(defs), NEW j \in 1..defs[e], x = <<e, j>>
          PROVE  FALSE
      <4>1. d = e /\ had + 1 = j
        BY <3>1, PairsAre
      <4> QED BY <1>1, <1>2, <4>1 DEF had
    <3> QED BY <3>1, CopiesAre
  <2>2. ASSUME NEW e \in BagToSet(more), NEW j \in 1..more[e], e.command = c
        PROVE  <<e, j>> \in Copies(defs, c) \/ (d.command = c /\ <<e, j>> = x)
    <3>1. CASE e # d
      <4>1. e \in BagToSet(defs) /\ j \in 1..defs[e]
        BY <1>1, <3>1
      <4> QED BY <2>2, <4>1, CopiesAre
    <3>2. CASE e = d /\ j = had + 1
      BY <2>2, <3>2
    <3>3. CASE e = d /\ j # had + 1
      <4>1. j \in 1..had
        BY <1>1, <1>2, <3>3
      <4>2. e \in BagToSet(defs) /\ j \in 1..defs[e]
        BY <1>1, <3>3, <4>1 DEF had
      <4> QED BY <2>2, <4>2, CopiesAre
    <3> QED BY <3>1, <3>2, <3>3
  <2>3. ASSUME NEW e \in BagToSet(defs), NEW j \in 1..defs[e], e.command = c
        PROVE  <<e, j>> \in Copies(more, c)
    <3>1. e \in BagToSet(more) /\ j \in 1..more[e]
      <4>1. CASE e = d
        <5>1. had = defs[d] /\ j \in 1..had
          BY <1>1, <4>1 DEF had
        <5>2. j \in 1..(had + 1)
          BY <1>2, <5>1
        <5> QED BY <1>1, <4>1, <5>2
      <4> QED BY <1>1, <4>1
    <3> QED BY <2>3, <3>1, CopiesAre
  <2>4. d.command = c => x \in Copies(more, c)
    <3>1. had + 1 \in 1..more[d] /\ d \in BagToSet(more)
      BY <1>1, <1>2
    <3> QED BY <3>1, CopiesAre
  <2> HIDE DEF x
  <2>5. \A y : y \in Copies(more, c) <=> y \in Copies(defs, c) \/ (d.command = c /\ y = x)
    BY <2>2, <2>3, <2>4, CopiesAre
  <2>6. Copies(more, c) = IF d.command = c THEN Copies(defs, c) \cup {x} ELSE Copies(defs, c)
    BY <2>5
  <2> QED BY <2>1, <2>6
<1> QED BY <1>4, <1>5 DEF more

LEMMA WithoutCopies ==
  ASSUME NEW defs, IsABag(defs), NEW d \in BagToSet(defs)
  PROVE  /\ IsABag(Without(defs, d))
         /\ \A c : \E x : Copies(Without(defs, d), c) =
                            IF d.command = c THEN Copies(defs, c) \ {x} ELSE Copies(defs, c)
<1> DEFINE less == Without(defs, d)
<1>1. /\ BagToSet(defs) = DOMAIN defs /\ BagToSet(less) = DOMAIN less
      /\ \A e : e \in DOMAIN less <=> e \in DOMAIN defs /\ (e = d => defs[d] - 1 > 0)
      /\ \A e \in DOMAIN less : less[e] = IF e = d THEN defs[d] - 1 ELSE defs[e]
      /\ \A e \in DOMAIN defs : defs[e] \in Nat /\ defs[e] > 0
      /\ less = [e \in DOMAIN less |-> less[e]]
  <2>1. \A e \in DOMAIN defs : defs[e] \in Nat /\ defs[e] > 0
    BY DEF IsABag
  <2> DEFINE one == SetToBag({d})
             B == [e \in DOMAIN defs |-> IF e \in DOMAIN one THEN defs[e] - one[e] ELSE defs[e]]
  <2>2. DOMAIN one = {d} /\ one[d] = 1
    BY DEF SetToBag
  <2>3. less = [e \in {e \in DOMAIN B : B[e] > 0} |-> B[e]]
    BY DEF Without, (-)
  <2> HIDE DEF one, less
  <2>4. DOMAIN B = DOMAIN defs /\ \A e \in DOMAIN defs : B[e] = IF e = d THEN defs[d] - 1 ELSE defs[e]
    BY <2>2
  <2> HIDE DEF B
  <2>5. DOMAIN less = {e \in DOMAIN B : B[e] > 0} /\ \A e \in DOMAIN less : less[e] = B[e]
    BY <2>3
  <2>6. less = [e \in DOMAIN less |-> less[e]]
    BY <2>3
  <2> QED BY <2>1, <2>4, <2>5, <2>6 DEF BagToSet
<1> HIDE DEF less
<1>2. \A e \in DOMAIN less : less[e] \in Nat /\ less[e] > 0
  BY <1>1
<1>3. IsABag(less)
  BY <1>1, <1>2 DEF IsABag
<1>4. ASSUME NEW c
      PROVE  \E x : Copies(less, c) = IF d.command = c THEN Copies(defs, c) \ {x} ELSE Copies(defs, c)
  <2> DEFINE x == <<d, defs[d]>>
  <2>1. ASSUME NEW e \in BagToSet(less), NEW j \in 1..less[e], e.command = c
        PROVE  <<e, j>> \in Copies(defs, c) /\ (d.command = c => <<e, j>> # x)
    <3>1. e \in BagToSet(defs) /\ j \in 1..defs[e] /\ ~(e = d /\ j = defs[d])
      BY <1>1
    <3>2. <<e, j>> # x
      BY <3>1, PairsAre
    <3> QED BY <2>1, <3>1, <3>2, CopiesAre
  <2>2. ASSUME NEW e \in BagToSet(defs), NEW j \in 1..defs[e], e.command = c, <<e, j>> # x
        PROVE  <<e, j>> \in Copies(less, c)
    <3>1. ~(e = d /\ j = defs[d])
      BY <2>2
    <3>2. e \in BagToSet(less) /\ j \in 1..less[e]
      BY <1>1, <3>1
    <3> QED BY <2>2, <3>2, CopiesAre
  <2>3. ASSUME NEW e \in BagToSet(defs), NEW j \in 1..defs[e], e.command = c, d.command # c
        PROVE  <<e, j>> \in Copies(less, c)
    <3>1. e \in BagToSet(less) /\ j \in 1..less[e]
      BY <1>1, <2>3
    <3> QED BY <2>3, <3>1, CopiesAre
  <2> HIDE DEF x
  <2>4. \A y : y \in Copies(less, c) <=> y \in Copies(defs, c) /\ (d.command = c => y # x)
    BY <2>1, <2>2, <2>3, CopiesAre
  <2>5. Copies(less, c) = IF d.command = c THEN Copies(defs, c) \ {x} ELSE Copies(defs, c)
    BY <2>4
  <2> QED BY <2>5
<1> QED BY <1>3, <1>4 DEF less

LEMMA BuiltInCopies ==
  IsABag(BuiltIn) /\ WithArguments(BuiltIn) /\ \A c : IsFiniteSet(Copies(BuiltIn, c))
<1> DEFINE S == {Macro("/slap", "/slap", "/me", << >>),
                 Macro("/replace", "/replace", "/macro", <<"">>),
                 Macro("/macros", "/macros", "/commands", <<"macros">>),
                 Macro("/replacements", "/replacements", "/commands", <<"replacements">>)}
<1>1. BuiltIn = [e \in S |-> 1]
  BY DEF BuiltIn, SetToBag
<1>2. WithArguments(BuiltIn)
  <2>1. BagToSet(BuiltIn) = S
    BY <1>1 DEF BagToSet
  <2>2. ASSUME NEW d \in S, d.to = "/macro"
        PROVE  d.args # << >>
    <3>1. ASSUME NEW c, NEW p, NEW to, NEW a, d = Macro(c, p, to, a)
          PROVE  d.to = to /\ d.args = a
      BY <3>1 DEF Macro
    <3>2. \/ d = Macro("/slap", "/slap", "/me", << >>)
          \/ d = Macro("/replace", "/replace", "/macro", <<"">>)
          \/ d = Macro("/macros", "/macros", "/commands", <<"macros">>)
          \/ d = Macro("/replacements", "/replacements", "/commands", <<"replacements">>)
      OBVIOUS
    <3>3. \/ d.to = "/me" \/ d.to = "/commands" \/ d.args = <<"">>
      BY <3>1, <3>2
    <3>4. d.args = <<"">>
      BY <2>2, <3>3
    <3> QED BY <3>4, Stages
  <2> QED BY <2>1, <2>2 DEF WithArguments
<1>3. IsFiniteSet({<<d, 1>> : d \in S})
  <2> DEFINE a == <<Macro("/slap", "/slap", "/me", << >>), 1>>
             b == <<Macro("/replace", "/replace", "/macro", <<"">>), 1>>
             c == <<Macro("/macros", "/macros", "/commands", <<"macros">>), 1>>
             e == <<Macro("/replacements", "/replacements", "/commands", <<"replacements">>), 1>>
  <2>1. {<<d, 1>> : d \in S} = (({a} \cup {b}) \cup {c}) \cup {e}
    OBVIOUS
  <2> HIDE DEF a, b, c, e
  <2>2. IsFiniteSet({a})
    BY FS_Singleton
  <2>3. IsFiniteSet({a} \cup {b})
    BY <2>2, FS_AddElement
  <2>4. IsFiniteSet(({a} \cup {b}) \cup {c})
    BY <2>3, FS_AddElement
  <2>5. IsFiniteSet((({a} \cup {b}) \cup {c}) \cup {e})
    BY <2>4, FS_AddElement
  <2> QED BY <2>1, <2>5
<1> HIDE DEF S
<1>4. IsABag(BuiltIn)
  BY <1>1 DEF IsABag
<1>5. ASSUME NEW c
      PROVE  IsFiniteSet(Copies(BuiltIn, c))
  <2>1. BagToSet(BuiltIn) = S /\ \A d \in S : BuiltIn[d] = 1
    BY <1>1 DEF BagToSet
  <2>2. \A x \in Copies(BuiltIn, c) : x \in {<<d, 1>> : d \in S}
    <3>1. ASSUME NEW d \in S, NEW j \in 1..BuiltIn[d]
          PROVE  <<d, j>> \in {<<e, 1>> : e \in S}
      <4>1. j = 1
        BY <2>1
      <4> QED BY <4>1
    <3> QED BY <2>1, <3>1, CopiesAre
  <2>3. Copies(BuiltIn, c) \in SUBSET {<<d, 1>> : d \in S}
    BY <2>2
  <2> QED BY <1>3, <2>3, FS_Subset
<1> QED BY <1>2, <1>4, <1>5

\* What is counted up to the next command that counts.
LEMMA Counts ==
  ASSUME NEW t, NEW s, NEW c, NEW h \in Nat, NEW n \in Nat, h < n,
         \A k \in 1..n : h < k /\ k < n => ~IsDefinition(t, s, k)
  PROVE  /\ \A i \in {h, n} :
              /\ IsFiniteSet(Defined(t, s, i, c)) /\ Cardinality(Defined(t, s, i, c)) \in Nat
              /\ IsFiniteSet(Erased(t, s, i, c)) /\ Cardinality(Erased(t, s, i, c)) \in Nat
         /\ n \notin Defined(t, s, n, c) =>
              Cardinality(Defined(t, s, n, c)) <= Cardinality(Defined(t, s, h, c))
         /\ Cardinality(Defined(t, s, n, c)) <= Cardinality(Defined(t, s, h, c)) + 1
         /\ Cardinality(Erased(t, s, h, c)) <= Cardinality(Erased(t, s, n, c))
         /\ n \in Erased(t, s, n, c) =>
              Cardinality(Erased(t, s, h, c)) + 1 <= Cardinality(Erased(t, s, n, c))
<1> DEFINE Dh == Defined(t, s, h, c)
           Dn == Defined(t, s, n, c)
           Eh == Erased(t, s, h, c)
           En == Erased(t, s, n, c)
<1>1. \A k \in 1..n : k \in 1..h \/ (h < k /\ k < n) \/ k = n
  OBVIOUS
<1>2. \A k \in 1..h : k \in 1..n /\ k # n
  OBVIOUS
<1>3. IsFiniteSet(1..h) /\ IsFiniteSet(1..n)
  BY FS_Interval
<1>4. Dh \in SUBSET (1..h) /\ Dn \in SUBSET (1..n) /\ Eh \in SUBSET (1..h) /\ En \in SUBSET (1..n)
  BY DEF Defined, Erased
<1>5. Dn \subseteq Dh \cup {n}
  BY <1>1 DEF Defined, IsDefinition
<1>6. Eh \subseteq En /\ n \notin Eh
  BY <1>2 DEF Erased
<1> HIDE DEF Dh, Dn, Eh, En
<1>7. IsFiniteSet(Dh) /\ IsFiniteSet(Dn) /\ IsFiniteSet(Eh) /\ IsFiniteSet(En)
  BY <1>3, <1>4, FS_Subset
<1>8. /\ Cardinality(Dh) \in Nat /\ Cardinality(Dn) \in Nat
      /\ Cardinality(Eh) \in Nat /\ Cardinality(En) \in Nat
  BY <1>7, FS_CardinalityType
<1>9. Cardinality(Dn) <= Cardinality(Dh) + 1
  <2>1. /\ IsFiniteSet(Dh \cup {n})
        /\ Cardinality(Dh \cup {n}) = IF n \in Dh THEN Cardinality(Dh) ELSE Cardinality(Dh) + 1
    BY <1>7, FS_AddElement
  <2>2. Cardinality(Dn) <= Cardinality(Dh \cup {n})
    <3>1. Dn \in SUBSET (Dh \cup {n})
      BY <1>5
    <3> QED BY <2>1, <3>1, FS_Subset
  <2> QED BY <1>8, <2>1, <2>2
<1>10. ASSUME n \notin Dn
       PROVE  Cardinality(Dn) <= Cardinality(Dh)
  <2>1. Dn \in SUBSET Dh
    BY <1>5, <1>10
  <2> QED BY <1>7, <2>1, FS_Subset
<1>11. Cardinality(Eh) <= Cardinality(En)
  <2>1. Eh \in SUBSET En
    BY <1>6
  <2> QED BY <1>7, <2>1, FS_Subset
<1>12. ASSUME n \in En
       PROVE  Cardinality(Eh) + 1 <= Cardinality(En)
  <2>1. Cardinality(Eh \cup {n}) = Cardinality(Eh) + 1
    BY <1>6, <1>7, FS_AddElement
  <2>2. Eh \cup {n} \in SUBSET En
    BY <1>6, <1>12
  <2>3. Cardinality(Eh \cup {n}) <= Cardinality(En)
    BY <1>7, <2>2, FS_Subset
  <2> QED BY <2>1, <2>3
<1> QED BY <1>7, <1>8, <1>9, <1>10, <1>11, <1>12 DEF Dh, Dn, Eh, En

LEMMA DirectKinds ==
  ASSUME NEW t, NEW m, Direct(t, m)
  PROVE  m.kind = "register_replacer" \/ m.kind = "raw_edict"
BY DEF Direct

LEMMA TailInTurn ==
  ASSUME NEW t, NEW h, NEW q \in Seq(MessageSet), q # << >>, InTurn(t, h, q)
  PROVE  InTurn(t, h, Tail(q))
<1> DEFINE r == Tail(q)
<1>1. /\ \A i \in 1..Len(r) : r[i] = q[i + 1] /\ i + 1 \in 1..Len(q)
  BY TailFacts
<1> HIDE DEF r
<1>2. \A i, j \in 1..Len(r) : Sooner(r, i, j) => Sooner(q, i + 1, j + 1)
  BY <1>1 DEF Sooner
<1>3. ASSUME NEW i \in 1..Len(r), NEW j \in 1..Len(r), Direct(t, r[i]), Direct(t, r[j]), Sooner(r, i, j)
      PROVE  r[i].line < r[j].line
  <2>1. Sooner(q, i + 1, j + 1) /\ i + 1 \in 1..Len(q) /\ j + 1 \in 1..Len(q)
        /\ r[i] = q[i + 1] /\ r[j] = q[j + 1]
    BY <1>1, <1>2, <1>3
  <2> QED BY <1>3, <2>1 DEF InTurn
<1>4. \A i \in 1..Len(r) : Direct(t, r[i]) => h < r[i].line
  BY <1>1 DEF InTurn
<1> QED BY <1>3, <1>4 DEF InTurn, r

LEMMA TailUnderWay ==
  ASSUME NEW t, NEW q \in Seq(MessageSet), q # << >>, NEW n, NEW open, UnderWay(t, q, n, open),
         ~(Direct(t, q[1]) /\ q[1].line = n)
  PROVE  UnderWay(t, Tail(q), n, open)
<1> DEFINE r == Tail(q)
<1>1. /\ Len(q) \in Nat /\ Len(r) = Len(q) - 1
      /\ \A i \in 1..Len(r) : r[i] = q[i + 1] /\ i + 1 \in 1..Len(q)
  BY TailFacts
<1> HIDE DEF r
<1>2. ASSUME NEW i \in 1..Len(q), Direct(t, q[i]), q[i].line = n
      PROVE  UnderWay(t, r, n, open)
  <2>1. i # 1
    BY <1>2
  <2>2. i - 1 \in 1..Len(r) /\ (i - 1) + 1 = i
    BY <1>1, <2>1
  <2>3. r[i - 1] = q[i]
    BY <1>1, <2>2
  <2> QED BY <1>2, <2>2, <2>3 DEF UnderWay
<1>3. ASSUME ~open, \A j \in 1..Len(q) : Direct(t, q[j]) /\ q[j].kind = "register_replacer" => q[j].line < n
      PROVE  UnderWay(t, r, n, open)
  BY <1>1, <1>3 DEF UnderWay
<1> QED BY <1>2, <1>3 DEF UnderWay, r

LEMMA AppendInTurn ==
  ASSUME NEW t, NEW h, NEW q \in Seq(MessageSet), InTurn(t, h, q), NEW m \in MessageSet,
         Direct(t, m) =>
           /\ h < m.line
           /\ \A i \in 1..Len(q) : Direct(t, q[i]) =>
                IF m.kind = "register_replacer" /\ q[i].kind = "raw_edict"
                THEN m.line < q[i].line ELSE q[i].line < m.line
  PROVE  InTurn(t, h, Append(q, m))
<1> DEFINE r == Append(q, m)
           l == Len(q) + 1
<1>1. /\ Len(r) = l /\ Len(q) \in Nat
      /\ \A i \in 1..Len(q) : r[i] = q[i]
      /\ r[l] = m
      /\ \A i \in 1..l : i \in 1..Len(q) \/ i = l
  BY AppendFacts
<1>2. \A i \in 1..Len(q) : i < l
  BY <1>1
<1>3. l \in Nat /\ ~(l < l)
  BY <1>1
<1> HIDE DEF r, l
<1>4. ASSUME NEW i \in 1..Len(r), NEW j \in 1..Len(r), Direct(t, r[i]), Direct(t, r[j]), Sooner(r, i, j)
      PROVE  r[i].line < r[j].line
  <2>1. CASE i \in 1..Len(q) /\ j \in 1..Len(q)
    <3>1. Sooner(q, i, j)
      BY <1>1, <1>4, <2>1 DEF Sooner
    <3> QED BY <1>1, <1>4, <2>1, <3>1 DEF InTurn
  <2>2. CASE i \in 1..Len(q) /\ j = l
    <3>1. ~(m.kind = "register_replacer" /\ q[i].kind = "raw_edict")
      BY <1>1, <1>4, <2>2 DEF Sooner
    <3> QED BY <1>1, <1>4, <2>2, <3>1
  <2>3. CASE i = l /\ j \in 1..Len(q)
    <3>1. ~(l < j)
      BY <1>2, <1>3, <2>3
    <3>2. m.kind = "register_replacer" /\ q[j].kind = "raw_edict"
      BY <1>1, <1>4, <2>3, <3>1 DEF Sooner
    <3> QED BY <1>1, <1>4, <2>3, <3>2
  <2>4. CASE i = l /\ j = l
    BY <1>3, <1>4, <2>4 DEF Sooner
  <2> QED BY <1>1, <2>1, <2>2, <2>3, <2>4
<1>5. \A i \in 1..Len(r) : Direct(t, r[i]) => h < r[i].line
  BY <1>1 DEF InTurn
<1> QED BY <1>4, <1>5 DEF InTurn, r

LEMMA AppendUnderWay ==
  ASSUME NEW t, NEW q \in Seq(MessageSet), NEW n, NEW open, UnderWay(t, q, n, open),
         NEW m \in MessageSet, open \/ ~Direct(t, m)
  PROVE  UnderWay(t, Append(q, m), n, open)
<1> DEFINE r == Append(q, m)
           l == Len(q) + 1
<1>1. /\ Len(r) = l /\ Len(q) \in Nat
      /\ \A i \in 1..Len(q) : r[i] = q[i]
      /\ r[l] = m
      /\ \A i \in 1..l : i \in 1..Len(q) \/ i = l
  BY AppendFacts
<1>2. \A i \in 1..Len(q) : i \in 1..l
  BY <1>1
<1> HIDE DEF r, l
<1> QED BY <1>1, <1>2 DEF UnderWay, r

\* What goes that is not about a command that was typed.
LEMMA DropBooks ==
  ASSUME NEW t, NEW s, NEW q \in Seq(MessageSet), q # << >>, NEW defs, NEW open,
         Books(t, s, q, defs, open), ~Direct(t, q[1])
  PROVE  Books(t, s, Tail(q), defs, open)
<1>1. PICK h \in 0..Len(t) :
        InTurn(t, h, q) /\ AllUnderWay(t, s, h, q, open) /\ Balance(t, s, h, defs)
  BY DEF Books
<1>2. InTurn(t, h, Tail(q))
  BY <1>1, TailInTurn
<1>3. AllUnderWay(t, s, h, Tail(q), open)
  BY <1>1, TailUnderWay DEF AllUnderWay
<1> QED BY <1>1, <1>2, <1>3 DEF Books

\* What comes that is not about such a command.
LEMMA AddBooks ==
  ASSUME NEW t, NEW s, NEW q \in Seq(MessageSet), NEW defs, NEW open,
         Books(t, s, q, defs, open), NEW m \in MessageSet, ~Direct(t, m)
  PROVE  Books(t, s, Append(q, m), defs, open)
<1>1. PICK h \in 0..Len(t) :
        InTurn(t, h, q) /\ AllUnderWay(t, s, h, q, open) /\ Balance(t, s, h, defs)
  BY DEF Books
<1>2. InTurn(t, h, Append(q, m))
  BY <1>1, AppendInTurn
<1>3. AllUnderWay(t, s, h, Append(q, m), open)
  BY <1>1, AppendUnderWay DEF AllUnderWay
<1> QED BY <1>1, <1>2, <1>3 DEF Books

\* A command that was typed becomes a message for the meatgrinder.
LEMMA RegisterBooks ==
  ASSUME NEW t, NEW s, NEW q \in Seq(MessageSet), q # << >>, NEW defs, NEW open, open,
         Books(t, s, q, defs, open), Direct(t, q[1]), q[1].kind = "raw_edict",
         NEW m \in MessageSet, m.kind = "register_replacer", m.line = q[1].line
  PROVE  Books(t, s, Append(Tail(q), m), defs, open)
<1> DEFINE r == Tail(q)
           u == Append(r, m)
<1>1. /\ r \in Seq(MessageSet) /\ Len(q) \in Nat /\ 1 \in 1..Len(q)
      /\ \A i \in 1..Len(r) : r[i] = q[i + 1] /\ i + 1 \in 1..Len(q)
  BY TailFacts
<1>2. PICK h \in 0..Len(t) :
        InTurn(t, h, q) /\ AllUnderWay(t, s, h, q, open) /\ Balance(t, s, h, defs)
  BY DEF Books
<1>3. Direct(t, m)
  BY DEF Direct
<1>4. /\ Len(u) = Len(r) + 1 /\ u[Len(r) + 1] = m /\ Len(r) \in Nat
  BY <1>1, AppendFacts
<1> HIDE DEF r, u
<1>5. ASSUME NEW i \in 1..Len(r), Direct(t, r[i])
      PROVE  IF m.kind = "register_replacer" /\ r[i].kind = "raw_edict"
             THEN m.line < r[i].line ELSE r[i].line < m.line
  <2>1. r[i] = q[i + 1] /\ i + 1 \in 1..Len(q) /\ 1 < i + 1
    BY <1>1
  <2>2. CASE r[i].kind = "raw_edict"
    <3>1. Sooner(q, 1, i + 1)
      BY <2>1, <2>2 DEF Sooner
    <3> QED BY <1>1, <1>2, <1>5, <2>1, <2>2, <3>1 DEF InTurn
  <2>3. CASE r[i].kind = "register_replacer"
    <3>1. Sooner(q, i + 1, 1)
      BY <2>1, <2>3 DEF Sooner
    <3> QED BY <1>1, <1>2, <1>5, <2>1, <2>3, <3>1 DEF InTurn
  <2> QED BY <1>5, <2>2, <2>3, DirectKinds
<1>6. h < m.line
  BY <1>1, <1>2 DEF InTurn
<1>7. InTurn(t, h, u)
  <2>1. InTurn(t, h, r)
    BY <1>2, TailInTurn DEF r
  <2> QED BY <1>1, <1>5, <1>6, <2>1, AppendInTurn DEF u
<1>8. ASSUME NEW n \in 1..Len(t), UnderWay(t, q, n, open)
      PROVE  UnderWay(t, u, n, open)
  <2>1. CASE n = m.line
    <3>1. Len(r) + 1 \in 1..Len(u)
      BY <1>4
    <3> QED BY <1>3, <1>4, <2>1, <3>1 DEF UnderWay
  <2>2. CASE n # m.line
    <3>1. UnderWay(t, r, n, open)
      BY <1>8, <2>2, TailUnderWay DEF r
    <3> QED BY <1>1, <3>1, AppendUnderWay DEF u
  <2> QED BY <2>1, <2>2
<1>9. AllUnderWay(t, s, h, u, open)
  BY <1>2, <1>8 DEF AllUnderWay
<1> QED BY <1>2, <1>7, <1>9 DEF Books, u, r

\* It is dropped: a definition only after a quit.
LEMMA LoseBooks ==
  ASSUME NEW t, NEW s, NEW q \in Seq(MessageSet), q # << >>, NEW defs, NEW open,
         Books(t, s, q, defs, open), Direct(t, q[1]), q[1].kind = "raw_edict",
         ~open \/ ~IsDefinition(t, s, q[1].line)
  PROVE  Books(t, s, Tail(q), defs, open)
<1>1. PICK h \in 0..Len(t) :
        InTurn(t, h, q) /\ AllUnderWay(t, s, h, q, open) /\ Balance(t, s, h, defs)
  BY DEF Books
<1>2. InTurn(t, h, Tail(q))
  BY <1>1, TailInTurn
<1>3. /\ 1 \in 1..Len(q) /\ Len(q) \in Nat
      /\ \A i \in 1..Len(Tail(q)) : Tail(q)[i] = q[i + 1] /\ i + 1 \in 1..Len(q)
  BY TailFacts
<1>4. ASSUME NEW n \in 1..Len(t), UnderWay(t, q, n, open), IsDefinition(t, s, n)
      PROVE  UnderWay(t, Tail(q), n, open)
  <2>1. CASE n # q[1].line
    BY <1>4, <2>1, TailUnderWay
  <2>2. CASE n = q[1].line
    <3>1. ~open
      BY <1>4, <2>2
    <3>2. ASSUME NEW j \in 1..Len(q), Direct(t, q[j]), q[j].kind = "register_replacer"
          PROVE  q[j].line < n
      <4>1. Sooner(q, j, 1)
        BY <3>2 DEF Sooner
      <4> QED BY <1>1, <1>3, <2>2, <3>2, <4>1 DEF InTurn
    <3> QED BY <1>3, <3>1, <3>2 DEF UnderWay
  <2> QED BY <2>1, <2>2
<1>5. AllUnderWay(t, s, h, Tail(q), open)
  BY <1>1, <1>4 DEF AllUnderWay
<1> QED BY <1>1, <1>2, <1>5 DEF Books

\* It is carried out: the books are closed at its line.
LEMMA CloseBooks ==
  ASSUME NEW t, NEW s, NEW q \in Seq(MessageSet), q # << >>, NEW open, NEW h \in Nat,
         InTurn(t, h, q), AllUnderWay(t, s, h, q, open),
         Direct(t, q[1]), q[1].kind = "register_replacer", NEW n \in 1..Len(t), n = q[1].line
  PROVE  /\ h < n /\ InTurn(t, n, Tail(q)) /\ AllUnderWay(t, s, n, Tail(q), open)
         /\ \A k \in 1..n : h < k /\ k < n => ~IsDefinition(t, s, k)
<1>1. /\ 1 \in 1..Len(q) /\ Len(q) \in Nat
      /\ \A i \in 1..Len(Tail(q)) : Tail(q)[i] = q[i + 1] /\ i + 1 \in 1..Len(q)
  BY TailFacts
<1>2. ASSUME NEW i \in 1..Len(q), i # 1, Direct(t, q[i])
      PROVE  n < q[i].line
  <2>1. 1 < i
    BY <1>1, <1>2
  <2>2. Sooner(q, 1, i)
    BY <1>2, <2>1, DirectKinds DEF Sooner
  <2> QED BY <1>1, <1>2, <2>2 DEF InTurn
<1>3. h < n
  BY <1>1 DEF InTurn
<1>4. InTurn(t, n, Tail(q))
  <2>1. InTurn(t, h, Tail(q))
    BY TailInTurn
  <2>2. \A i \in 1..Len(Tail(q)) : i + 1 # 1
    OBVIOUS
  <2>3. \A i \in 1..Len(Tail(q)) : Direct(t, Tail(q)[i]) => n < Tail(q)[i].line
    BY <1>1, <1>2, <2>2
  <2> QED BY <2>1, <2>3 DEF InTurn
<1>5. ASSUME NEW k \in 1..Len(t), n < k, UnderWay(t, q, k, open)
      PROVE  UnderWay(t, Tail(q), k, open)
  <2>1. q[1].line # k
    BY <1>5
  <2> QED BY <1>5, <2>1, TailUnderWay
<1>6. AllUnderWay(t, s, n, Tail(q), open)
  <2>1. \A k \in 1..Len(t) : n < k => h < k
    BY <1>3
  <2> QED BY <1>5, <2>1 DEF AllUnderWay
<1>7. ASSUME NEW k \in 1..n, h < k, k < n, IsDefinition(t, s, k)
      PROVE  FALSE
  <2>1. k \in 1..Len(t) /\ ~(n < k)
    BY <1>7
  <2>2. UnderWay(t, q, k, open)
    BY <1>7, <2>1 DEF AllUnderWay
  <2>3. ASSUME NEW i \in 1..Len(q), Direct(t, q[i]), q[i].line = k
        PROVE  FALSE
    BY <1>2, <1>7, <2>1, <2>3
  <2>4. ASSUME \A j \in 1..Len(q) : Direct(t, q[j]) /\ q[j].kind = "register_replacer" => q[j].line < k
        PROVE  FALSE
    BY <1>1, <2>1, <2>4
  <2> QED BY <2>2, <2>3, <2>4 DEF UnderWay
<1> QED BY <1>3, <1>4, <1>6, <1>7

LEMMA ShutBooks ==
  ASSUME NEW t, NEW s, NEW q, NEW defs, NEW open, Books(t, s, q, defs, open)
  PROVE  Books(t, s, q, defs, FALSE)
<1>1. \A n : UnderWay(t, q, n, open) => UnderWay(t, q, n, FALSE)
  BY DEF UnderWay
<1> QED BY <1>1 DEF Books, AllUnderWay

\* More macros do no harm.
LEMMA MoreCopies ==
  ASSUME NEW defs, IsABag(defs), NEW d, NEW c, IsFiniteSet(Copies(defs, c))
  PROVE  /\ IsFiniteSet(Copies(With(defs, d), c))
         /\ Cardinality(Copies(defs, c)) \in Nat
         /\ Cardinality(Copies(With(defs, d), c)) =
              Cardinality(Copies(defs, c)) + (IF d.command = c THEN 1 ELSE 0)
<1>1. PICK x : /\ x \notin Copies(defs, c)
               /\ Copies(With(defs, d), c) =
                    IF d.command = c THEN Copies(defs, c) \cup {x} ELSE Copies(defs, c)
  BY WithCopies
<1>2. Cardinality(Copies(defs, c)) \in Nat
  BY FS_CardinalityType
<1>3. CASE d.command = c
  <2>1. /\ IsFiniteSet(Copies(defs, c) \cup {x})
        /\ Cardinality(Copies(defs, c) \cup {x}) = Cardinality(Copies(defs, c)) + 1
    BY <1>1, FS_AddElement
  <2> QED BY <1>1, <1>2, <1>3, <2>1
<1>4. CASE d.command # c
  BY <1>1, <1>2, <1>4
<1> QED BY <1>3, <1>4

LEMMA FewerCopies ==
  ASSUME NEW defs, IsABag(defs), NEW d \in BagToSet(defs), NEW c, IsFiniteSet(Copies(defs, c))
  PROVE  /\ IsFiniteSet(Copies(Without(defs, d), c))
         /\ Cardinality(Copies(defs, c)) \in Nat /\ Cardinality(Copies(Without(defs, d), c)) \in Nat
         /\ Cardinality(Copies(defs, c)) <=
              Cardinality(Copies(Without(defs, d), c)) + (IF d.command = c THEN 1 ELSE 0)
<1>1. PICK x : Copies(Without(defs, d), c) =
                 IF d.command = c THEN Copies(defs, c) \ {x} ELSE Copies(defs, c)
  BY WithoutCopies
<1>2. Cardinality(Copies(defs, c)) \in Nat
  BY FS_CardinalityType
<1>3. CASE d.command = c
  <2>1. /\ IsFiniteSet(Copies(defs, c) \ {x})
        /\ Cardinality(Copies(defs, c) \ {x}) =
             IF x \in Copies(defs, c) THEN Cardinality(Copies(defs, c)) - 1 ELSE Cardinality(Copies(defs, c))
    BY FS_RemoveElement
  <2>2. Cardinality(Copies(defs, c) \ {x}) \in Nat
    BY <2>1, FS_CardinalityType
  <2> QED BY <1>1, <1>2, <1>3, <2>1, <2>2
<1>4. CASE d.command # c
  BY <1>1, <1>2, <1>4
<1> QED BY <1>3, <1>4

LEMMA MoreBooks ==
  ASSUME NEW t, NEW s, NEW q, NEW defs, IsABag(defs), NEW open, Books(t, s, q, defs, open), NEW d,
         Len(t) \in Nat
  PROVE  Books(t, s, q, With(defs, d), open)
<1>1. PICK h \in 0..Len(t) :
        InTurn(t, h, q) /\ AllUnderWay(t, s, h, q, open) /\ Balance(t, s, h, defs)
  BY DEF Books
<1>2. ASSUME NEW c \in Channels
      PROVE  /\ IsFiniteSet(Copies(With(defs, d), c))
             /\ Cardinality(Defined(t, s, h, c)) <=
                  Cardinality(Copies(With(defs, d), c)) + Cardinality(Erased(t, s, h, c))
  <2>1. /\ IsFiniteSet(Copies(defs, c))
        /\ Cardinality(Defined(t, s, h, c)) <= Cardinality(Copies(defs, c)) + Cardinality(Erased(t, s, h, c))
    BY <1>1 DEF Balance
  <2>2. /\ IsFiniteSet(Copies(With(defs, d), c))
        /\ Cardinality(Copies(defs, c)) \in Nat
        /\ Cardinality(Copies(With(defs, d), c)) =
             Cardinality(Copies(defs, c)) + (IF d.command = c THEN 1 ELSE 0)
    BY <2>1, MoreCopies
  <2>3. h \in Nat /\ h + 1 \in Nat /\ h < h + 1 /\ \A k \in 1..(h + 1) : ~(h < k /\ k < h + 1)
    OBVIOUS
  <2>4. Cardinality(Defined(t, s, h, c)) \in Nat /\ Cardinality(Erased(t, s, h, c)) \in Nat
    BY <2>3, Counts
  <2> QED BY <2>1, <2>2, <2>4
<1>3. Balance(t, s, h, With(defs, d))
  BY <1>2 DEF Balance
<1> QED BY <1>1, <1>3 DEF Books

\* A definition that was typed is carried out.
LEMMA DefineBooks ==
  ASSUME NEW t, Len(t) \in Nat, NEW s, NEW q \in Seq(MessageSet), q # << >>,
         NEW defs, IsABag(defs), NEW open,
         Books(t, s, q, defs, open), Direct(t, q[1]), q[1].kind = "register_replacer",
         q[1].line \in 1..Len(t), NEW d, d.command = t[q[1].line].args[1]
  PROVE  Books(t, s, Tail(q), With(defs, d), open)
<1> DEFINE n == q[1].line
<1>1. PICK h \in 0..Len(t) :
        InTurn(t, h, q) /\ AllUnderWay(t, s, h, q, open) /\ Balance(t, s, h, defs)
  BY DEF Books
<1>2. /\ h < n /\ InTurn(t, n, Tail(q)) /\ AllUnderWay(t, s, n, Tail(q), open)
      /\ \A k \in 1..n : h < k /\ k < n => ~IsDefinition(t, s, k)
  <2>1. h \in Nat /\ n \in 1..Len(t)
    OBVIOUS
  <2> HIDE DEF n
  <2>2. n = q[1].line
    BY DEF n
  <2> QED BY <1>1, <2>1, <2>2, CloseBooks
<1>3. h \in Nat /\ n \in Nat /\ n \in 0..Len(t)
  OBVIOUS
<1>4. \A c : c # d.command => n \notin Defined(t, s, n, c)
  BY DEF Defined
<1> HIDE DEF n
<1>5. ASSUME NEW c \in Channels
      PROVE  /\ IsFiniteSet(Copies(With(defs, d), c))
             /\ Cardinality(Defined(t, s, n, c)) <=
                  Cardinality(Copies(With(defs, d), c)) + Cardinality(Erased(t, s, n, c))
  <2>1. /\ IsFiniteSet(Copies(defs, c))
        /\ Cardinality(Defined(t, s, h, c)) <= Cardinality(Copies(defs, c)) + Cardinality(Erased(t, s, h, c))
    BY <1>1 DEF Balance
  <2>2. /\ IsFiniteSet(Copies(With(defs, d), c))
        /\ Cardinality(Copies(defs, c)) \in Nat
        /\ Cardinality(Copies(With(defs, d), c)) =
             Cardinality(Copies(defs, c)) + (IF d.command = c THEN 1 ELSE 0)
    BY <2>1, MoreCopies
  <2>3. /\ Cardinality(Defined(t, s, h, c)) \in Nat /\ Cardinality(Erased(t, s, h, c)) \in Nat
        /\ Cardinality(Defined(t, s, n, c)) \in Nat /\ Cardinality(Erased(t, s, n, c)) \in Nat
        /\ n \notin Defined(t, s, n, c) =>
             Cardinality(Defined(t, s, n, c)) <= Cardinality(Defined(t, s, h, c))
        /\ Cardinality(Defined(t, s, n, c)) <= Cardinality(Defined(t, s, h, c)) + 1
        /\ Cardinality(Erased(t, s, h, c)) <= Cardinality(Erased(t, s, n, c))
    BY <1>2, <1>3, Counts
  <2>4. CASE d.command = c
    BY <2>1, <2>2, <2>3, <2>4
  <2>5. CASE d.command # c
    <3>1. n \notin Defined(t, s, n, c)
      BY <1>4, <2>5
    <3> QED BY <2>1, <2>2, <2>3, <2>5, <3>1
  <2> QED BY <2>4, <2>5
<1>6. Balance(t, s, n, With(defs, d))
  BY <1>5 DEF Balance
<1> QED BY <1>2, <1>3, <1>6 DEF Books

\* The erasure at n is already counted.
OneMore(t, s, n, defs) ==
  \A c \in Channels :
    /\ IsFiniteSet(Copies(defs, c)) /\ Cardinality(Copies(defs, c)) \in Nat
    /\ Cardinality(Defined(t, s, n, c)) \in Nat /\ Cardinality(Erased(t, s, n, c)) \in Nat
    /\ Cardinality(Defined(t, s, n, c)) + (IF c = t[n].args[1] THEN 1 ELSE 0) <=
         Cardinality(Copies(defs, c)) + Cardinality(Erased(t, s, n, c))

\* What is known when an erasure that was typed is the next to be carried out.
LEMMA EraseCounts ==
  ASSUME NEW t, Len(t) \in Nat, NEW s, NEW q \in Seq(MessageSet), q # << >>, NEW defs, NEW open,
         Books(t, s, q, defs, open), Direct(t, q[1]), q[1].kind = "register_replacer",
         NEW n \in 1..Len(t), n = q[1].line,
         t[n].session = s, t[n].cmd = "/macro_erase", t[n].args # << >>
  PROVE  /\ InTurn(t, n, Tail(q)) /\ AllUnderWay(t, s, n, Tail(q), open)
         /\ OneMore(t, s, n, defs)
<1>1. PICK h \in 0..Len(t) :
        InTurn(t, h, q) /\ AllUnderWay(t, s, h, q, open) /\ Balance(t, s, h, defs)
  BY DEF Books
<1>2. /\ h < n /\ InTurn(t, n, Tail(q)) /\ AllUnderWay(t, s, n, Tail(q), open)
      /\ \A k \in 1..n : h < k /\ k < n => ~IsDefinition(t, s, k)
  <2>1. h \in Nat
    OBVIOUS
  <2> QED BY <1>1, <2>1, CloseBooks
<1>3. h \in Nat /\ n \in Nat /\ n \in 1..n
  OBVIOUS
<1>4. \A c : n \notin Defined(t, s, n, c) /\ (c = t[n].args[1] => n \in Erased(t, s, n, c))
  BY <1>3 DEF Defined, Erased
<1>5. ASSUME NEW c \in Channels
      PROVE  /\ IsFiniteSet(Copies(defs, c)) /\ Cardinality(Copies(defs, c)) \in Nat
             /\ Cardinality(Defined(t, s, n, c)) \in Nat /\ Cardinality(Erased(t, s, n, c)) \in Nat
             /\ Cardinality(Defined(t, s, n, c)) + (IF c = t[n].args[1] THEN 1 ELSE 0) <=
                  Cardinality(Copies(defs, c)) + Cardinality(Erased(t, s, n, c))
  <2>1. /\ IsFiniteSet(Copies(defs, c))
        /\ Cardinality(Defined(t, s, h, c)) <= Cardinality(Copies(defs, c)) + Cardinality(Erased(t, s, h, c))
    BY <1>1 DEF Balance
  <2>2. Cardinality(Copies(defs, c)) \in Nat
    BY <2>1, FS_CardinalityType
  <2>3. /\ Cardinality(Defined(t, s, h, c)) \in Nat /\ Cardinality(Erased(t, s, h, c)) \in Nat
        /\ Cardinality(Defined(t, s, n, c)) \in Nat /\ Cardinality(Erased(t, s, n, c)) \in Nat
        /\ n \notin Defined(t, s, n, c) =>
             Cardinality(Defined(t, s, n, c)) <= Cardinality(Defined(t, s, h, c))
        /\ Cardinality(Erased(t, s, h, c)) <= Cardinality(Erased(t, s, n, c))
        /\ n \in Erased(t, s, n, c) =>
             Cardinality(Erased(t, s, h, c)) + 1 <= Cardinality(Erased(t, s, n, c))
    BY <1>2, <1>3, Counts
  <2>4. n \notin Defined(t, s, n, c) /\ (c = t[n].args[1] => n \in Erased(t, s, n, c))
    BY <1>4
  <2> QED BY <2>1, <2>2, <2>3, <2>4
<1>6. OneMore(t, s, n, defs)
  BY <1>5 DEF OneMore
<1> QED BY <1>2, <1>6

LEMMA EraseBooks ==
  ASSUME NEW t, Len(t) \in Nat, NEW s, NEW q \in Seq(MessageSet), q # << >>,
         NEW defs, IsABag(defs), NEW open,
         Books(t, s, q, defs, open), Direct(t, q[1]), q[1].kind = "register_replacer",
         NEW n \in 1..Len(t), n = q[1].line,
         t[n].session = s, t[n].cmd = "/macro_erase", t[n].args # << >>,
         NEW rest, \/ rest = defs
                   \/ \E d \in BagToSet(defs) : d.command = t[n].args[1] /\ rest = Without(defs, d)
  PROVE  Books(t, s, Tail(q), rest, open)
<1>1. InTurn(t, n, Tail(q)) /\ AllUnderWay(t, s, n, Tail(q), open) /\ OneMore(t, s, n, defs)
  BY EraseCounts
<1>2. ASSUME NEW c \in Channels
      PROVE  /\ IsFiniteSet(Copies(rest, c))
             /\ Cardinality(Defined(t, s, n, c)) <=
                  Cardinality(Copies(rest, c)) + Cardinality(Erased(t, s, n, c))
  <2>0. /\ IsFiniteSet(Copies(defs, c)) /\ Cardinality(Copies(defs, c)) \in Nat
        /\ Cardinality(Defined(t, s, n, c)) \in Nat /\ Cardinality(Erased(t, s, n, c)) \in Nat
        /\ Cardinality(Defined(t, s, n, c)) + (IF c = t[n].args[1] THEN 1 ELSE 0) <=
             Cardinality(Copies(defs, c)) + Cardinality(Erased(t, s, n, c))
    BY <1>1 DEF OneMore
  <2>1. CASE rest = defs
    BY <2>0, <2>1
  <2>2. ASSUME NEW d \in BagToSet(defs), d.command = t[n].args[1], rest = Without(defs, d)
        PROVE  /\ IsFiniteSet(Copies(rest, c))
               /\ Cardinality(Defined(t, s, n, c)) <=
                    Cardinality(Copies(rest, c)) + Cardinality(Erased(t, s, n, c))
    <3>1. /\ IsFiniteSet(Copies(rest, c)) /\ Cardinality(Copies(rest, c)) \in Nat
          /\ Cardinality(Copies(defs, c)) <=
               Cardinality(Copies(rest, c)) + (IF d.command = c THEN 1 ELSE 0)
      BY <2>0, <2>2, FewerCopies
    <3> QED BY <2>0, <2>2, <3>1
  <2> QED BY <2>1, <2>2
<1>3. Balance(t, s, n, rest) /\ n \in 0..Len(t)
  BY <1>2 DEF Balance
<1> QED BY <1>1, <1>3 DEF Books

LEMMA EraseExcused ==
  ASSUME NEW t \in Seq(TypedLine), NEW s, NEW u, NEW q \in Seq(MessageSet), q # << >>,
         NEW defs, NEW open,
         Books(t, s, q, defs, open), Direct(t, q[1]), q[1].kind = "register_replacer",
         NEW n \in 1..Len(t), n = q[1].line,
         t[n].session = s, t[n].cmd = "/macro_erase", t[n].args # << >>,
         Macros(defs, t[n].args[1]) = {}
  PROVE  Excused(t, s, u)
<1> DEFINE c == t[n].args[1]
<1>1. Len(t) \in Nat /\ c \in Channels
  <2>1. t[n] \in TypedLine /\ Len(t) \in Nat
    OBVIOUS
  <2>2. t[n].args \in Seq(Channels)
    BY <2>1 DEF TypedLine
  <2> QED BY <2>1, <2>2
<1>2. /\ Cardinality(Copies(defs, c)) \in Nat
      /\ Cardinality(Defined(t, s, n, c)) \in Nat /\ Cardinality(Erased(t, s, n, c)) \in Nat
      /\ Cardinality(Defined(t, s, n, c)) + 1 <= Cardinality(Copies(defs, c)) + Cardinality(Erased(t, s, n, c))
  <2>1. OneMore(t, s, n, defs)
    BY <1>1, EraseCounts
  <2> QED BY <1>1, <2>1 DEF OneMore
<1>3. Cardinality(Copies(defs, c)) = 0
  <2>1. Copies(defs, c) = {}
    BY DEF Copies
  <2> QED BY <2>1, FS_EmptySet
<1>4. Cardinality(Defined(t, s, n, c)) < Cardinality(Erased(t, s, n, c))
  BY <1>2, <1>3
<1> QED BY <1>4 DEF Excused

\* A line that is typed is the last to be carried out.
LEMMA TypedBooks ==
  ASSUME NEW t \in Seq(TypedLine), NEW x \in TypedLine, NEW s, NEW q \in Seq(MessageSet), NEW defs,
         \A i \in 1..Len(q) : q[i].kind \in {"raw_edict", "register_replacer"} => q[i].line \in 1..Len(t),
         Books(t, s, q, defs, TRUE), NEW m \in MessageSet, m.kind = "raw_edict", m.line = Len(t) + 1
  PROVE  Books(Append(t, x), s, Append(q, m), defs, TRUE)
<1> DEFINE u == Append(t, x)
           l == Len(t) + 1
<1>1. /\ Len(u) = l /\ u[l] = x /\ Len(t) \in Nat /\ l \in Nat
      /\ \A k \in 1..Len(t) : u[k] = t[k]
      /\ \A k \in 1..l : k \in 1..Len(t) \/ k = l
  <2>1. /\ Len(u) = l /\ u[l] = x /\ Len(t) \in Nat
        /\ \A k \in 1..Len(t) : u[k] = t[k]
    BY TypedGrows
  <2> QED BY <2>1
<1>2. PICK h \in 0..Len(t) :
        InTurn(t, h, q) /\ AllUnderWay(t, s, h, q, TRUE) /\ Balance(t, s, h, defs)
  BY DEF Books
<1> DEFINE r == Append(q, m)
<1>3. /\ Len(r) = Len(q) + 1 /\ r[Len(q) + 1] = m /\ Len(q) \in Nat
      /\ \A i \in 1..Len(q) : r[i] = q[i]
  BY AppendFacts
<1> HIDE DEF u, r, l
<1>4. \A i \in 1..Len(q) : Direct(u, q[i]) <=> Direct(t, q[i])
  BY <1>1 DEF Direct
<1>5. InTurn(u, h, q)
  BY <1>2, <1>4 DEF InTurn
<1>6. InTurn(u, h, r)
  <2>1. \A i \in 1..Len(q) : Direct(u, q[i]) => q[i].line < l
    BY <1>1 DEF Direct, l
  <2>2. h < l
    BY <1>1 DEF l
  <2> QED BY <1>5, <2>1, <2>2, AppendInTurn DEF r, l
<1>7. AllUnderWay(u, s, h, r, TRUE)
  <2> SUFFICES ASSUME NEW n \in 1..l, h < n, IsDefinition(u, s, n)
               PROVE  UnderWay(u, r, n, TRUE)
    BY <1>1 DEF AllUnderWay
  <2>1. CASE n = l
    <3>1. Direct(u, m)
      BY <2>1 DEF Direct, IsDefinition, MacroWords, l
    <3>2. Len(q) + 1 \in 1..Len(r)
      BY <1>3
    <3> QED BY <1>3, <2>1, <3>1, <3>2 DEF UnderWay, l
  <2>2. CASE n \in 1..Len(t)
    <3>1. IsDefinition(t, s, n)
      BY <1>1, <2>2 DEF IsDefinition
    <3>2. UnderWay(t, q, n, TRUE)
      BY <1>2, <2>2, <3>1 DEF AllUnderWay
    <3>3. UnderWay(u, q, n, TRUE)
      BY <1>4, <3>2 DEF UnderWay
    <3> QED BY <3>3, AppendUnderWay DEF r
  <2> QED BY <1>1, <2>1, <2>2
<1>8. Balance(u, s, h, defs)
  <2>1. \A k \in 1..h : u[k] = t[k]
    BY <1>1
  <2>2. \A c : Defined(u, s, h, c) = Defined(t, s, h, c) /\ Erased(u, s, h, c) = Erased(t, s, h, c)
    BY <2>1 DEF Defined, Erased
  <2> QED BY <1>2, <2>2 DEF Balance
<1>9. h \in 0..Len(u)
  BY <1>1 DEF l
<1> QED BY <1>6, <1>7, <1>8, <1>9 DEF Books, u, r

\* At the beginning of a session.
LEMMA FirstBooks ==
  ASSUME NEW t, Len(t) \in Nat, NEW s, \A n \in 1..Len(t) : t[n].session # s
  PROVE  Books(t, s, << >>, BuiltIn, TRUE)
<1>1. InTurn(t, 0, << >>)
  BY DEF InTurn
<1>2. AllUnderWay(t, s, 0, << >>, TRUE)
  BY DEF AllUnderWay, IsDefinition
<1>3. Balance(t, s, 0, BuiltIn)
  <2> SUFFICES ASSUME NEW c \in Channels
               PROVE  /\ IsFiniteSet(Copies(BuiltIn, c))
                      /\ Cardinality(Defined(t, s, 0, c)) <=
                           Cardinality(Copies(BuiltIn, c)) + Cardinality(Erased(t, s, 0, c))
    BY DEF Balance
  <2>1. IsFiniteSet(Copies(BuiltIn, c)) /\ Cardinality(Copies(BuiltIn, c)) \in Nat
    BY BuiltInCopies, FS_CardinalityType
  <2>2. Defined(t, s, 0, c) = {} /\ Erased(t, s, 0, c) = {}
    BY DEF Defined, Erased
  <2>3. Cardinality(Defined(t, s, 0, c)) = 0 /\ Cardinality(Erased(t, s, 0, c)) = 0
    BY <2>2, FS_EmptySet
  <2> QED BY <2>1, <2>3
<1>4. 0 \in 0..Len(t)
  OBVIOUS
<1> QED BY <1>1, <1>2, <1>3, <1>4 DEF Books

-------------------------------------------------------------------------------
(* What is kept of the queue of the meatgrinder, and of the macros.        *)
Kept(t, s, q, defs, open) ==
  AllFaithful(t, q) /\ WithArguments(defs) /\ Books(t, s, q, defs, open)

LEMMA CarefulWords ==
  ASSUME NEW t, Careful(t)
  PROVE  /\ \A w \in {"/macro", "/macro_erase", "/channel"} : ~Heard(t, w)
         /\ \A cmd \in {"/macro", "/macro_erase", "/channel"} : ~Mentioned(t, {cmd})
         /\ ~Spoken(t, "/macro_erase")
<1>1. \A w \in {"/macro", "/macro_erase", "/channel"} : \A n \in 1..Len(t) : w \notin Range(t[n].args)
  BY DEF Careful, Mentioned
<1>2. \A w \in {"/macro", "/macro_erase", "/channel"} : ~Heard(t, w)
  BY <1>1 DEF Heard
<1> QED BY <1>1, <1>2 DEF Mentioned, Spoken

LEMMA KeptTail ==
  ASSUME NEW t, NEW s, NEW q \in Seq(MessageSet), q # << >>, NEW defs, NEW open,
         Kept(t, s, q, defs, open),
         \/ ~Direct(t, q[1])
         \/ q[1].kind = "raw_edict" /\ (~open \/ ~IsDefinition(t, s, q[1].line))
  PROVE  Kept(t, s, Tail(q), defs, open)
<1>1. AllFaithful(t, Tail(q))
  BY TailFacts DEF Kept, AllFaithful
<1>2. Books(t, s, Tail(q), defs, open)
  <2>1. CASE ~Direct(t, q[1])
    BY <2>1, DropBooks DEF Kept
  <2>2. CASE Direct(t, q[1])
    BY <2>2, LoseBooks DEF Kept
  <2> QED BY <2>1, <2>2
<1> QED BY <1>1, <1>2 DEF Kept

LEMMA FaithfulMore ==
  ASSUME NEW t, NEW q \in Seq(MessageSet), AllFaithful(t, q), NEW m \in MessageSet, Faithful(t, m)
  PROVE  AllFaithful(t, Append(q, m))
BY AppendFacts DEF AllFaithful

LEMMA KeptAppend ==
  ASSUME NEW t, NEW s, NEW q \in Seq(MessageSet), NEW defs, NEW open,
         Kept(t, s, q, defs, open), NEW m \in MessageSet, ~Direct(t, m), Faithful(t, m)
  PROVE  Kept(t, s, Append(q, m), defs, open)
BY FaithfulMore, AddBooks DEF Kept

LEMMA KeptRegister ==
  ASSUME NEW t, NEW s, NEW q \in Seq(MessageSet), q # << >>, NEW defs, NEW open, open,
         Kept(t, s, q, defs, open), Direct(t, q[1]), q[1].kind = "raw_edict",
         NEW m \in MessageSet, m.kind = "register_replacer", m.line = q[1].line, Faithful(t, m)
  PROVE  Kept(t, s, Append(Tail(q), m), defs, open)
<1>1. AllFaithful(t, Tail(q)) /\ Tail(q) \in Seq(MessageSet)
  BY TailFacts DEF Kept, AllFaithful
<1>2. AllFaithful(t, Append(Tail(q), m))
  BY <1>1, FaithfulMore
<1> QED BY <1>2, RegisterBooks DEF Kept

LEMMA KeptShut ==
  ASSUME NEW t, NEW s, NEW q, NEW defs, NEW open, Kept(t, s, q, defs, open), NEW less, less => open
  PROVE  Kept(t, s, q, defs, less)
<1>1. \A n : UnderWay(t, q, n, open) => UnderWay(t, q, n, less)
  BY DEF UnderWay
<1>2. Books(t, s, q, defs, less)
  BY <1>1 DEF Kept, Books, AllUnderWay
<1> QED BY <1>2 DEF Kept

\* A command about macros that was typed is what it was, and no macro fits.
LEMMA DirectEdict ==
  ASSUME TypeInv, Careful(typed), AllFaithful(typed, pipe["meatgrinder"]),
         Reads("meatgrinder", "raw_edict")
  PROVE  /\ pipe["meatgrinder"] \in Seq(MessageSet) /\ pipe["meatgrinder"] # << >>
         /\ Edict = pipe["meatgrinder"][1] /\ Faithful(typed, Edict)
         /\ Direct(typed, Edict) =>
              /\ Edict.cmd \in MacroWords /\ ~IsEmpty(Edict)
              /\ Edict.cmd = typed[Edict.line].cmd /\ Edict.args = typed[Edict.line].args
              /\ Rewritten(macros, Edict) = {}
         /\ ~Direct(typed, Edict) =>
              /\ typed[Edict.line].cmd \notin MacroWords
              /\ Edict.cmd # "/macro_erase" /\ (Edict.cmd = "/macro" => Edict.args # << >>)
<1> DEFINE q == pipe["meatgrinder"]
<1>1. q \in Seq(MessageSet) /\ q # << >>
  BY DEF TypeInv, GoodPipes, Plugins, Reads
<1>2. Edict = q[1] /\ 1 \in 1..Len(q)
  BY <1>1, TailFacts DEF Edict, First
<1>3. /\ Edict.kind = "raw_edict" /\ Edict.line \in 1..Len(typed)
      /\ \/ Edict.cmd = typed[Edict.line].cmd /\ Edict.args = typed[Edict.line].args
         \/ Spoken(typed, Edict.cmd)
  BY EdictFacts
<1>4. Faithful(typed, Edict)
  BY <1>2 DEF AllFaithful
<1>5. ASSUME Direct(typed, Edict)
      PROVE  /\ Edict.cmd \in MacroWords /\ ~IsEmpty(Edict)
             /\ Edict.cmd = typed[Edict.line].cmd /\ Edict.args = typed[Edict.line].args
             /\ Rewritten(macros, Edict) = {}
  <2>1. /\ typed[Edict.line].cmd \in MacroWords
        /\ Edict.cmd = typed[Edict.line].cmd /\ Edict.args = typed[Edict.line].args
    BY <1>3, <1>4, <1>5 DEF Direct, Faithful
  <2>2. ASSUME NEW d \in BagToSet(macros), d.command = Edict.cmd
        PROVE  FALSE
    <3>1. Heard(typed, d.command) \/ d.command \in {"/slap", "/replace", "/macros", "/replacements"}
      BY DEF TypeInv, GoodMacro
    <3> QED BY <2>1, <2>2, <3>1, CarefulWords DEF MacroWords
  <2>3. Rewritten(macros, Edict) = {}
    BY <2>2 DEF Rewritten, Macros
  <2> QED BY <2>1, <2>3 DEF MacroWords, IsEmpty
<1>6. ASSUME ~Direct(typed, Edict)
      PROVE  /\ typed[Edict.line].cmd \notin MacroWords
             /\ Edict.cmd # "/macro_erase" /\ (Edict.cmd = "/macro" => Edict.args # << >>)
  <2>1. typed[Edict.line].cmd \notin MacroWords
    BY <1>3, <1>6 DEF Direct
  <2> QED BY <1>3, <1>4, <2>1, CarefulWords DEF Faithful, MacroWords
<1> QED BY <1>1, <1>2, <1>4, <1>5, <1>6

\* After a step of the meatgrinder.
Ground ==
  /\ IsABag(macros')
  /\ \/ phase' = "crashed" /\ Excused(typed, session, ui)
     \/ /\ phase' # "crashed"
        /\ Kept(typed, session, pipe'["meatgrinder"], macros', phase' = "running")

LEMMA LastIs ==
  ASSUME NEW S, NEW q \in Seq(S), NEW m, Append(q, m) \in Seq(S)
  PROVE  m \in S
<1> DEFINE r == Append(q, m)
<1>1. q \in Seq(S \cup {m}) /\ m \in S \cup {m}
  OBVIOUS
<1>2. Len(r) = Len(q) + 1 /\ Len(q) \in Nat /\ r[Len(q) + 1] = m
  BY <1>1, AppendFacts
<1>3. r \in Seq(S)
  OBVIOUS
<1> HIDE DEF r
<1>4. Len(q) + 1 \in 1..Len(r)
  BY <1>2
<1> QED BY <1>2, <1>3, <1>4

\* What a step does to the queue of the meatgrinder, if it does not crash.
LEMMA QueueKept ==
  ASSUME TypeInv, TypeInv', IsABag(macros), pipe["meatgrinder"] # << >>,
         phase \in {"running", "stopping"},
         Kept(typed, session, pipe["meatgrinder"], macros, phase = "running"),
         NEW h, h = pipe["meatgrinder"][1],
         phase' = phase, macros' = macros
  PROVE  /\ /\ \/ ~Direct(typed, h)
               \/ h.kind = "raw_edict" /\ (phase # "running" \/ ~IsDefinition(typed, session, h.line))
            /\ pipe' = Rest("meatgrinder")
            => Ground
         /\ \A m : /\ Head(m.to) \in Plugins /\ ~Direct(typed, h)
                   /\ ~Direct(typed, m) /\ Faithful(typed, m)
                   /\ pipe' = Put(Rest("meatgrinder"), m)
                   => Ground
         /\ \A m : /\ Head(m.to) = "meatgrinder" /\ Direct(typed, h) /\ h.kind = "raw_edict"
                   /\ m.kind = "register_replacer" /\ m.line = h.line /\ Faithful(typed, m)
                   /\ pipe' = Put(Rest("meatgrinder"), m)
                   => Ground
<1> DEFINE g == "meatgrinder"
           q == pipe[g]
           r == pipe'[g]
<1>1. g \in Plugins /\ q \in Seq(MessageSet) /\ r \in Seq(MessageSet) /\ q # << >>
  BY DEF Plugins, TypeInv, GoodPipes
<1>2. Tail(q) \in Seq(MessageSet)
  BY <1>1
<1>3. /\ Rest(g) \in [Plugins -> Seq(MessageSet)] /\ Rest(g)[g] = Tail(q)
  BY <1>1, RestAt
<1>4. phase' # "crashed" /\ macros' = macros /\ phase' = phase /\ IsABag(macros)
  OBVIOUS
<1>5. ASSUME Kept(typed, session, r, macros, phase = "running")
      PROVE  Ground
  BY <1>4, <1>5 DEF Ground
<1>6. ASSUME ~Direct(typed, h) \/ (h.kind = "raw_edict" /\
                     (phase # "running" \/ ~IsDefinition(typed, session, h.line)))
      PROVE  Kept(typed, session, Tail(q), macros, phase = "running")
  BY <1>1, <1>6, KeptTail
<1>7. ASSUME NEW m, Head(m.to) \in Plugins, pipe' = Put(Rest(g), m)
      PROVE  r = IF phase = "running" /\ g = Head(m.to) THEN Append(Tail(q), m) ELSE Tail(q)
  BY <1>1, <1>3, <1>7, PutAt
<1> HIDE DEF r, q
<1>8. ASSUME NEW m, r = Append(Tail(q), m)
      PROVE  m \in MessageSet
  BY <1>1, <1>2, <1>8, LastIs
<1>9. ASSUME ~Direct(typed, h) \/ (h.kind = "raw_edict" /\
                     (phase # "running" \/ ~IsDefinition(typed, session, h.line))),
             pipe' = Rest(g)
      PROVE  Ground
  <2>1. r = Tail(q)
    BY <1>3, <1>9 DEF r
  <2> QED BY <1>5, <1>6, <1>9, <2>1
<1>10. ASSUME NEW m, Head(m.to) \in Plugins, ~Direct(typed, h), ~Direct(typed, m), Faithful(typed, m),
              pipe' = Put(Rest(g), m)
       PROVE  Ground
  <2>1. CASE phase = "running" /\ g = Head(m.to)
    <3>1. r = Append(Tail(q), m) /\ m \in MessageSet
      BY <1>7, <1>8, <1>10, <2>1
    <3>2. Kept(typed, session, Append(Tail(q), m), macros, phase = "running")
      BY <1>2, <1>6, <1>10, <3>1, KeptAppend
    <3> QED BY <1>5, <3>1, <3>2
  <2>2. CASE ~(phase = "running" /\ g = Head(m.to))
    <3>1. r = Tail(q)
      BY <1>7, <1>10, <2>2
    <3> QED BY <1>5, <1>6, <1>10, <3>1
  <2> QED BY <2>1, <2>2
<1>11. ASSUME NEW m, Head(m.to) = g, Direct(typed, h), h.kind = "raw_edict",
              m.kind = "register_replacer", m.line = h.line, Faithful(typed, m),
              pipe' = Put(Rest(g), m)
       PROVE  Ground
  <2>1. CASE phase = "running"
    <3>1. r = Append(Tail(q), m) /\ m \in MessageSet
      BY <1>1, <1>7, <1>8, <1>11, <2>1
    <3>2. h = q[1] /\ Kept(typed, session, q, macros, phase = "running")
      BY DEF q
    <3>3. Kept(typed, session, Append(Tail(q), m), macros, phase = "running")
      BY <1>1, <1>11, <2>1, <3>1, <3>2, KeptRegister
    <3> QED BY <1>5, <3>1, <3>3
  <2>2. CASE phase # "running"
    <3>1. r = Tail(q)
      BY <1>1, <1>7, <1>11, <2>2
    <3> QED BY <1>5, <1>6, <1>11, <2>2, <3>1
  <2> QED BY <2>1, <2>2
<1> QED BY <1>9, <1>10, <1>11

\* Plain words, and all commands that are not about macros.
LEMMA SpeechKept ==
  ASSUME TypeInv, TypeInv', Careful(typed), IsABag(macros),
         Kept(typed, session, pipe["meatgrinder"], macros, phase = "running"),
         \/ DropEmpty \/ Rewrite \/ Complain \/ HandleNormal \/ HandleMe \/ HandleQuit
         \/ HandleChannelChange \/ HandleChannelLeave \/ HandleOnly \/ HandleCommands
  PROVE  Ground
<1> DEFINE g == "meatgrinder"
           q == pipe[g]
<1>1. Reads(g, "raw_edict")
  BY DEF DropEmpty, Rewrite, Complain, HandleNormal, HandleMe, HandleQuit,
         HandleChannelChange, HandleChannelLeave, HandleOnly, HandleCommands, Grinds, Handles
<1>2. /\ q \in Seq(MessageSet) /\ q # << >> /\ Edict = q[1] /\ Faithful(typed, Edict)
      /\ Direct(typed, Edict) =>
           Edict.cmd \in MacroWords /\ ~IsEmpty(Edict) /\ Rewritten(macros, Edict) = {}
      /\ ~Direct(typed, Edict) => typed[Edict.line].cmd \notin MacroWords
  BY <1>1, DirectEdict DEF Kept
<1>3. phase \in {"running", "stopping"} /\ ui \in {"console", "qt", "qtFirst"}
  BY <1>1 DEF Reads, TypeInv
<1>4. ~Direct(typed, Edict)
  BY <1>2 DEF DropEmpty, Rewrite, Complain, HandleNormal, HandleMe, HandleQuit,
         HandleChannelChange, HandleChannelLeave, HandleOnly, HandleCommands, Handles,
         MacroWords, Known, Handlers
<1>5. ASSUME pipe' = Rest(g), phase' = phase, macros' = macros
      PROVE  Ground
  BY <1>2, <1>3, <1>4, <1>5, QueueKept
<1>6. ASSUME NEW m, Head(m.to) \in Plugins, ~Direct(typed, m), Faithful(typed, m),
             pipe' = Put(Rest(g), m), phase' = phase, macros' = macros
      PROVE  Ground
  BY <1>2, <1>3, <1>4, <1>6, QueueKept
<1>7. ASSUME NEW kind \in {"notify", "edict", "set_channel", "leave_channel", "only", "display_commands"},
             NEW chan, Answer(kind, chan)
      PROVE  Ground
  <2> DEFINE m == About(kind, Edict.line, chan)
  <2>1. Head(m.to) \in Plugins /\ m.kind = kind
    BY <1>3, MessageHead DEF About
  <2>2. pipe' = Put(Rest(g), m) /\ phase' = phase /\ macros' = macros
    BY <1>7 DEF Answer, Write
  <2> HIDE DEF m
  <2>3. ~Direct(typed, m) /\ Faithful(typed, m)
    BY <2>1 DEF Direct, Faithful
  <2> QED BY <1>6, <2>1, <2>2, <2>3
<1>8. CASE DropEmpty
  BY <1>5, <1>8 DEF DropEmpty, Swallow
<1>9. CASE Rewrite
  <2>1. PICK m \in Rewritten(macros, Edict) : pipe' = Put(Rest(g), m)
    BY <1>9 DEF Rewrite, Write
  <2>2. PICK d \in BagToSet(macros) : m = [Edict EXCEPT !.cmd = d.to, !.args = d.args \o @]
    BY <2>1 DEF Rewritten, Macros
  <2>3. Edict \in MessageSet /\ Edict.kind = "raw_edict" /\ Edict.to = <<"meatgrinder">>
    BY <1>1, EdictFacts
  <2>4. /\ m.kind = "raw_edict" /\ m.to = <<"meatgrinder">> /\ m.line = Edict.line
        /\ m.cmd = d.to /\ m.args = d.args \o Edict.args
    BY <2>2, <2>3 DEF MessageSet
  <2>5. Head(m.to) \in Plugins
    BY <2>4 DEF Plugins
  <2>6. ~Direct(typed, m)
    BY <1>2, <1>4, <2>4 DEF Direct
  <2>7. m.cmd = "/macro" => m.args # << >>
    <3>1. SUFFICES ASSUME d.to = "/macro"
                   PROVE  m.args # << >>
      BY <2>4
    <3>2. d.args # << >> /\ d.args \in Seq(Channels) /\ Edict.args \in Seq(Channels)
      BY <2>2, <2>3, <3>1, FieldTypes DEF Kept, WithArguments, TypeInv, GoodMacro
    <3>3. Len(d.args) \in Nat /\ Len(d.args) # 0 /\ Len(Edict.args) \in Nat
      BY <3>2
    <3>4. Len(d.args \o Edict.args) = Len(d.args) + Len(Edict.args)
      BY <3>2, ConcatProperties
    <3>5. Len(m.args) # 0
      <4>1. \A j, k \in Nat : j # 0 => j + k # 0
        OBVIOUS
      <4>2. Len(d.args) + Len(Edict.args) # 0
        BY <3>3, <4>1
      <4>3. m.args = d.args \o Edict.args
        BY <2>4
      <4> QED BY <3>4, <4>2, <4>3
    <3> QED BY <3>5
  <2>8. Faithful(typed, m)
    BY <1>2, <1>4, <2>4, <2>7 DEF Faithful
  <2>9. phase' = phase /\ macros' = macros
    BY <1>9 DEF Rewrite
  <2> QED BY <1>6, <2>1, <2>5, <2>6, <2>8, <2>9
<1>10. CASE HandleMe
  BY <1>5, <1>7, <1>10 DEF HandleMe, Swallow
<1>11. CASE HandleQuit
  <2> DEFINE m == About("shutdown", 0, Blank)
             t == Tail(q)
  <2>1. phase' = "stopping" /\ macros' = macros
    BY <1>11 DEF HandleQuit, InitiateShutdown
  <2>2. t \in Seq(MessageSet) /\ Rest(g)[g] = t /\ g \in Plugins
    BY <1>2, RestAt DEF Plugins
  <2>3. m.kind = "shutdown"
    BY AboutFields DEF About
  <2> HIDE DEF q, m
  <2>4. pipe'[g] = t \/ pipe'[g] = Append(t, m)
    BY <1>11, <2>2 DEF HandleQuit, InitiateShutdown, m
  <2>5. pipe'[g] \in Seq(MessageSet)
    BY <2>2 DEF TypeInv, GoodPipes
  <2>6. Kept(typed, session, t, macros, phase = "running")
    BY <1>2, <1>4, KeptTail DEF q
  <2>7. Kept(typed, session, t, macros, phase' = "running")
    <3>1. phase' = "running" => phase = "running"
      BY <2>1
    <3> HIDE DEF t
    <3> QED BY <2>6, <3>1, KeptShut
  <2> HIDE DEF t
  <2>8. pipe'[g] = Append(t, m) => Kept(typed, session, Append(t, m), macros, phase' = "running")
    <3>1. ~Direct(typed, m) /\ Faithful(typed, m)
      BY <2>3 DEF Direct, Faithful
    <3>2. pipe'[g] = Append(t, m) => m \in MessageSet
      BY <2>2, <2>5, LastIs
    <3> QED BY <2>2, <2>7, <3>1, <3>2, KeptAppend
  <2>9. Kept(typed, session, pipe'[g], macros, phase' = "running")
    BY <2>4, <2>7, <2>8
  <2> QED BY <2>1, <2>9 DEF Ground
<1>12. CASE Complain \/ HandleNormal \/ HandleChannelChange \/ HandleChannelLeave \/ HandleOnly
            \/ HandleCommands
  BY <1>7, <1>12 DEF Complain, HandleNormal, HandleChannelChange, HandleChannelLeave, HandleOnly,
                     HandleCommands
<1> QED BY <1>8, <1>9, <1>10, <1>11, <1>12

\* The commands about macros.
LEMMA MacroKept ==
  ASSUME TypeInv, TypeInv', Careful(typed), IsABag(macros),
         Kept(typed, session, pipe["meatgrinder"], macros, phase = "running"),
         HandleUserCommand \/ HandleEraseCommand
  PROVE  Ground
<1> DEFINE g == "meatgrinder"
           q == pipe[g]
<1>1. Reads(g, "raw_edict")
  BY DEF HandleUserCommand, HandleEraseCommand, Grinds, Handles
<1>2. /\ q \in Seq(MessageSet) /\ q # << >> /\ Edict = q[1]
      /\ Direct(typed, Edict) =>
           Edict.cmd = typed[Edict.line].cmd /\ Edict.args = typed[Edict.line].args
      /\ ~Direct(typed, Edict) =>
           /\ typed[Edict.line].cmd \notin MacroWords
           /\ Edict.cmd # "/macro_erase" /\ (Edict.cmd = "/macro" => Edict.args # << >>)
  BY <1>1, DirectEdict DEF Kept
<1>3. phase \in {"running", "stopping"} /\ ui \in {"console", "qt", "qtFirst"}
  BY <1>1 DEF Reads, TypeInv
<1>4. /\ Edict.kind = "raw_edict" /\ Edict.line \in 1..Len(typed) /\ Edict.line # 0
      /\ typed[Edict.line].session = session /\ Edict.args \in Seq(Channels)
      /\ Len(Edict.args) \in Nat
  BY <1>1, EdictFacts, FieldTypes
<1>5. Edict.cmd \in MacroWords
  BY DEF HandleUserCommand, HandleEraseCommand, Handles, MacroWords
<1>6. ASSUME ~IsDefinition(typed, session, Edict.line) \/ ~Direct(typed, Edict),
             pipe' = Rest(g), phase' = phase, macros' = macros
      PROVE  Ground
  BY <1>2, <1>3, <1>4, <1>6, QueueKept
<1>7. ASSUME Edict.args = << >>, Undefined
      PROVE  Ground
  <2>1. Direct(typed, Edict)
    BY <1>2, <1>5, <1>7 DEF MacroWords
  <2>2. typed[Edict.line].cmd \in MacroWords /\ typed[Edict.line].args = << >>
    BY <1>2, <1>5, <1>7, <2>1
  <2>3. Excused(typed, session, ui)
    BY <1>4, <2>2 DEF Excused
  <2>4. ~IsDefinition(typed, session, Edict.line)
    BY <2>2 DEF IsDefinition
  <2>5. CASE Crash
    BY <1>7, <2>3, <2>5 DEF Crash, Undefined, Ground
  <2>6. CASE pipe' = Rest(g) /\ phase' = phase
    BY <1>6, <1>7, <2>4, <2>6 DEF Undefined
  <2> QED BY <1>7, <2>5, <2>6 DEF Undefined, Swallow
<1>8. ASSUME NEW text, Register(text), text.args # << >>, text.args[1] = Edict.args[1], Edict.args # << >>,
             text.cmd = IF Edict.cmd = "/macro_erase" THEN "REMOVE" ELSE "ADD"
      PROVE  Ground
  <2> DEFINE m == Message("register_replacer", Edict.line, text, Edict.channel)
  <2>1. /\ Head(m.to) \in Plugins /\ m.kind = "register_replacer" /\ m.line = Edict.line
        /\ m.cmd = text.cmd /\ m.args = text.args /\ m.to = Route("register_replacer")
    BY <1>3, MessageHead, AboutFields
  <2>2. Head(m.to) = g
    BY <2>1 DEF Route
  <2>3. pipe' = Put(Rest(g), m) /\ phase' = phase /\ macros' = macros
    BY <1>8 DEF Register
  <2> HIDE DEF m
  <2>4. CASE Direct(typed, Edict)
    <3>1. Faithful(typed, m)
      BY <1>2, <1>4, <1>8, <2>1, <2>4 DEF Faithful
    <3> QED BY <1>2, <1>3, <1>4, <2>1, <2>2, <2>3, <2>4, <3>1, QueueKept
  <2>5. CASE ~Direct(typed, Edict)
    <3>1. Faithful(typed, m) /\ ~Direct(typed, m)
      BY <1>2, <1>4, <1>8, <2>1, <2>5 DEF Faithful, Direct, MacroWords
    <3> QED BY <1>2, <1>3, <2>1, <2>3, <2>5, <3>1, QueueKept
  <2> QED BY <2>4, <2>5
<1>9. CASE HandleUserCommand
  <2>1. Edict.cmd = "/macro"
    BY <1>9 DEF HandleUserCommand, Handles
  <2>2. CASE Len(Edict.args) \in 1..2 /\ Swallow(g) /\ UNCHANGED <<phase, macros>>
    <3>1. ~(Len(Edict.args) > 2)
      <4>1. Len(Edict.args) \in 1..2
        BY <2>2
      <4>2. \A n \in 1..2 : ~(n > 2)
        OBVIOUS
      <4> QED BY <4>1, <4>2
    <3>2. ~IsDefinition(typed, session, Edict.line) \/ ~Direct(typed, Edict)
      BY <1>2, <3>1 DEF IsDefinition
    <3> QED BY <1>6, <2>2, <3>2 DEF Swallow
  <2>3. CASE Len(Edict.args) > 2 /\ Register(Line("ADD", Edict.args))
    <3>1. Edict.args # << >>
      BY <1>4, <2>3
    <3>2. Line("ADD", Edict.args).cmd = "ADD" /\ Line("ADD", Edict.args).args = Edict.args
      BY DEF Line
    <3> QED BY <1>8, <2>1, <2>3, <3>1, <3>2
  <2> QED BY <1>7, <1>9, <2>2, <2>3 DEF HandleUserCommand
<1>10. CASE HandleEraseCommand
  <2>1. Edict.cmd = "/macro_erase"
    BY <1>10 DEF HandleEraseCommand, Handles
  <2>2. CASE Edict.args # << >> /\ Register(Line("REMOVE", Edict.args \o <<"", "">>))
    <3> DEFINE two == <<"", "">>
               a == Edict.args \o two
    <3>1. two \in Seq(Channels)
      <4>1. two \in Seq({""})
        OBVIOUS
      <4>2. {""} \subseteq Channels
        BY ConversationAssumption
      <4> HIDE DEF two
      <4> QED BY <4>1, <4>2, SeqOfMore
    <3>2. Len(two) \in Nat
      OBVIOUS
    <3> HIDE DEF two
    <3>3. Len(Edict.args) # 0
      <4>1. Edict.args # << >>
        BY <2>2
      <4> QED BY <1>4, <4>1
    <3>4. /\ Len(a) = Len(Edict.args) + Len(two)
          /\ \A j \in 1..Len(a) : a[j] = IF j <= Len(Edict.args) THEN Edict.args[j] ELSE two[j - Len(Edict.args)]
      BY <1>4, <3>1, ConcatProperties
    <3>5. 1 \in 1..Len(a) /\ 1 <= Len(Edict.args) /\ Len(a) # 0
      BY <1>4, <3>2, <3>3, <3>4
    <3>6. a[1] = Edict.args[1] /\ a # << >>
      <4> HIDE DEF a
      <4> QED BY <3>4, <3>5
    <3> HIDE DEF a
    <3>7. Line("REMOVE", a).cmd = "REMOVE" /\ Line("REMOVE", a).args = a
      BY DEF Line
    <3>8. Register(Line("REMOVE", a))
      BY <2>2 DEF a, two
    <3> QED BY <1>8, <2>1, <2>2, <3>6, <3>7, <3>8
  <2> QED BY <1>7, <1>10, <2>2 DEF HandleEraseCommand
<1> QED BY <1>9, <1>10

\* The macros change.
LEMMA ReplacersKept ==
  ASSUME TypeInv, TypeInv', Careful(typed), IsABag(macros),
         Kept(typed, session, pipe["meatgrinder"], macros, phase = "running"),
         Define \/ Erase \/ DisplayCommands
  PROVE  Ground
<1> DEFINE g == "meatgrinder"
           q == pipe[g]
           h == First(g)
           open == phase = "running"
<1>1. g \in Plugins /\ {"register_replacer", "display_commands"} \subseteq Kinds
  BY DEF Plugins, Kinds
<1>2. \E kind \in {"register_replacer", "display_commands"} : Reads(g, kind)
  BY DEF Define, Erase, DisplayCommands, Grinds
<1>3. /\ q \in Seq(MessageSet) /\ q # << >> /\ phase \in {"running", "stopping"}
      /\ ui \in {"console", "qt", "qtFirst"}
      /\ Rest(g)[g] = Tail(q)
  <2>1. q \in Seq(MessageSet) /\ q # << >>
    BY <1>1, <1>2 DEF TypeInv, GoodPipes, Reads
  <2> QED BY <1>1, <1>2, <2>1, RestAt DEF TypeInv, Reads
<1>4. Good(ui, typed, session, g, h) /\ h = q[1] /\ 1 \in 1..Len(q)
  BY <1>1, <1>2, ReadsGood
<1>5. /\ h \in MessageSet /\ h.line \in Nat /\ h.args \in Seq(Channels) /\ Len(h.args) \in Nat
      /\ \A j \in 1..Len(h.args) : Heard(typed, h.args[j])
      /\ h.kind = "register_replacer" => Len(h.args) > 2
      /\ Faithful(typed, h) /\ h.line <= Len(typed)
      /\ h.line # 0 => typed[h.line].session = session
  BY <1>4, FieldTypes DEF Good, Worded, Origin, Kept, AllFaithful
<1>6. typed \in Seq(TypedLine) /\ Len(typed) \in Nat
  BY LogTypes DEF TypeInv, HistoryType
<1>7. /\ AllFaithful(typed, q) /\ WithArguments(macros) /\ Books(typed, session, q, macros, open)
  BY DEF Kept
<1>8. AllFaithful(typed, Tail(q))
  BY <1>3, <1>7, TailFacts DEF AllFaithful
<1>9. /\ Definition.command = h.args[1] /\ Definition.to = h.args[3] /\ Definition.pattern = h.args[2]
  BY DEF Definition, Macro
<1>10. CASE DisplayCommands
  <2> DEFINE m == About("notify", h.line, h.channel)
  <2>1. h.kind = "display_commands" /\ ~Direct(typed, h)
    BY <1>10 DEF DisplayCommands, Grinds, Reads, Direct
  <2>2. Head(m.to) \in Plugins /\ m.kind = "notify"
    BY <1>3, MessageHead DEF About
  <2>3. pipe' = Put(Rest(g), m) /\ phase' = phase /\ macros' = macros
    BY <1>10 DEF DisplayCommands, Answer, Write, Edict
  <2> HIDE DEF m
  <2>4. ~Direct(typed, m) /\ Faithful(typed, m)
    BY <2>2 DEF Direct, Faithful
  <2> QED BY <1>3, <1>4, <2>1, <2>2, <2>3, <2>4, QueueKept
<1>11. ASSUME pipe' = Rest(g), phase' = phase, IsABag(macros'), WithArguments(macros'),
              Books(typed, session, Tail(q), macros', open)
       PROVE  Ground
  <2>1. phase' # "crashed" /\ pipe'[g] = Tail(q)
    BY <1>3, <1>11
  <2>2. Kept(typed, session, Tail(q), macros', phase = "running")
    BY <1>8, <1>11 DEF Kept
  <2>3. Kept(typed, session, pipe'[g], macros', phase' = "running")
    BY <1>11, <2>1, <2>2
  <2> QED BY <1>11, <2>1, <2>3 DEF Ground
<1>12. ASSUME h.kind = "register_replacer"
       PROVE  /\ h.line \in 1..Len(typed) /\ typed[h.line].session = session
              /\ h.args[1] \in Channels /\ Heard(typed, h.args[3])
              /\ h.cmd = IF typed[h.line].cmd = "/macro_erase" THEN "REMOVE" ELSE "ADD"
              /\ typed[h.line].cmd \in MacroWords =>
                   typed[h.line].args # << >> /\ h.args[1] = typed[h.line].args[1]
  BY <1>5, <1>6, <1>12 DEF Faithful
<1> HIDE DEF q, h, open
<1>13. CASE Define
  <2> DEFINE d == Definition
  <2>1. /\ h.kind = "register_replacer" /\ macros' = With(macros, d)
        /\ pipe' = Rest(g) /\ phase' = phase
    BY <1>13 DEF Define, Grinds, Reads, Swallow, h
  <2>2. BagToSet(macros') = BagToSet(macros) \cup {d}
    BY <2>1, WithAdds
  <2>3. d.to # "/macro"
    BY <1>9, <1>12, <2>1, CarefulWords
  <2> HIDE DEF d
  <2>4. WithArguments(macros')
    BY <1>7, <2>2, <2>3 DEF WithArguments
  <2>5. IsABag(macros')
    BY <2>1, WithCopies
  <2>6. Books(typed, session, Tail(q), With(macros, d), open)
    <3>1. CASE Direct(typed, h)
      <4>1. typed[h.line].cmd \in MacroWords
        BY <3>1 DEF Direct
      <4>2. d.command = typed[h.line].args[1] /\ h.line \in 1..Len(typed)
        BY <1>9, <1>12, <2>1, <4>1 DEF d
      <4>3. h = q[1]
        BY <1>4
      <4>4. d.command = typed[q[1].line].args[1] /\ q[1].line \in 1..Len(typed)
            /\ Direct(typed, q[1]) /\ q[1].kind = "register_replacer"
        BY <2>1, <3>1, <4>2, <4>3
      <4> QED BY <1>3, <1>6, <1>7, <4>4, DefineBooks
    <3>2. CASE ~Direct(typed, h)
      <4>1. Books(typed, session, Tail(q), macros, open)
        BY <1>3, <1>4, <1>7, <3>2, DropBooks
      <4> QED BY <1>6, <4>1, MoreBooks
    <3> QED BY <3>1, <3>2
  <2> QED BY <1>11, <2>1, <2>4, <2>5, <2>6
<1>14. CASE Erase
  <2>1. h.kind = "register_replacer" /\ h.cmd = "REMOVE"
    BY <1>14 DEF Erase, Grinds, Reads, h
  <2>2. typed[h.line].cmd = "/macro_erase" /\ typed[h.line].cmd \in MacroWords
    BY <1>12, <2>1 DEF MacroWords
  <2>3. /\ Direct(typed, h) /\ h.line \in 1..Len(typed) /\ typed[h.line].session = session
        /\ typed[h.line].args # << >> /\ Definition.command = typed[h.line].args[1]
    BY <1>9, <1>12, <2>1, <2>2 DEF Direct
  <2>4. ASSUME NEW rest, \/ rest = macros
                         \/ \E d \in BagToSet(macros) :
                              d.command = typed[h.line].args[1] /\ rest = Without(macros, d)
        PROVE  Books(typed, session, Tail(q), rest, open)
    <3>1. /\ Direct(typed, q[1]) /\ q[1].kind = "register_replacer" /\ h.line = q[1].line
      BY <1>4, <2>1, <2>3
    <3> QED BY <1>3, <1>6, <1>7, <2>2, <2>3, <2>4, <3>1, EraseBooks
  <2>5. CASE pipe' = Rest(g) /\ phase' = phase /\ macros' = macros
    BY <1>7, <1>11, <2>4, <2>5
  <2>6. ASSUME NEW d \in BagToSet(macros), d.command = typed[h.line].args[1],
               pipe' = Rest(g), phase' = phase, macros' = Without(macros, d)
        PROVE  Ground
    <3>1. IsABag(macros')
      BY <2>6, WithoutCopies
    <3>2. WithArguments(macros')
      BY <1>7, <2>6, WithoutKeeps DEF WithArguments
    <3>3. Books(typed, session, Tail(q), macros', open)
      BY <2>4, <2>6
    <3> QED BY <1>11, <2>6, <3>1, <3>2, <3>3
  <2>7. CASE Crash /\ macros' = macros /\ Macros(macros, Definition.command) = {}
    <3>1. /\ Direct(typed, q[1]) /\ q[1].kind = "register_replacer" /\ h.line = q[1].line
      BY <1>4, <2>1, <2>3
    <3>2. Macros(macros, typed[h.line].args[1]) = {}
      BY <2>3, <2>7
    <3>3. Excused(typed, session, ui)
      BY <1>3, <1>6, <1>7, <2>2, <2>3, <3>1, <3>2, EraseExcused
    <3> QED BY <2>7, <3>3 DEF Crash, Ground
  <2> DEFINE found == IF Definition.pattern = "" THEN Macros(macros, Definition.command)
                      ELSE Matching(macros, Definition)
  <2>8. \A d \in found : d \in BagToSet(macros) /\ d.command = typed[h.line].args[1]
    BY <2>3 DEF Macros, Matching
  <2>9. \/ (\E m \in found : macros' = Without(macros, m)) /\ Swallow(g) /\ UNCHANGED phase
        \/ found = {} /\ Definition.pattern = "" /\ Undefined
        \/ Swallow(g) /\ UNCHANGED <<phase, macros>>
    BY <1>14 DEF Erase
  <2> HIDE DEF found
  <2>10. CASE (\E m \in found : macros' = Without(macros, m)) /\ Swallow(g) /\ UNCHANGED phase
    BY <2>6, <2>8, <2>10 DEF Swallow
  <2>11. CASE found = {} /\ Definition.pattern = "" /\ Undefined
    <3>1. Macros(macros, Definition.command) = {}
      BY <2>11 DEF found
    <3> QED BY <2>5, <2>7, <2>11, <3>1 DEF Undefined, Swallow
  <2> QED BY <2>5, <2>9, <2>10, <2>11 DEF Swallow
<1> QED BY <1>10, <1>13, <1>14

LEMMA GrinderKept ==
  ASSUME TypeInv, TypeInv', Careful(typed), IsABag(macros),
         Kept(typed, session, pipe["meatgrinder"], macros, phase = "running"),
         MeatgrinderStep
  PROVE  Ground
BY SpeechKept, MacroKept, ReplacersKept DEF MeatgrinderStep

-------------------------------------------------------------------------------
(* The steps of the others.                                                *)
LEMMA OthersKept ==
  ASSUME TypeInv, TypeInv', Kept(typed, session, pipe["meatgrinder"], macros, phase = "running"),
         phase' = "running" => phase = "running",
         \/ pipe'["meatgrinder"] = pipe["meatgrinder"]
         \/ \E m : /\ m.kind \notin {"raw_edict", "register_replacer"}
                   /\ pipe'["meatgrinder"] = Append(pipe["meatgrinder"], m)
         \/ /\ pipe["meatgrinder"] # << >> /\ ~Direct(typed, pipe["meatgrinder"][1])
            /\ pipe'["meatgrinder"] = Tail(pipe["meatgrinder"])
  PROVE  Kept(typed, session, pipe'["meatgrinder"], macros, phase' = "running")
<1> DEFINE q == pipe["meatgrinder"]
           r == pipe'["meatgrinder"]
<1>1. q \in Seq(MessageSet) /\ r \in Seq(MessageSet)
  BY DEF TypeInv, GoodPipes, Plugins
<1> HIDE DEF q, r
<1>2. Kept(typed, session, q, macros, phase = "running")
  BY DEF q
<1>3. Kept(typed, session, r, macros, phase = "running")
  <2>1. CASE r = q
    BY <1>2, <2>1
  <2>2. ASSUME NEW m, m.kind \notin {"raw_edict", "register_replacer"}, r = Append(q, m)
        PROVE  Kept(typed, session, r, macros, phase = "running")
    <3>1. m \in MessageSet
      BY <1>1, <2>2, LastIs
    <3>2. ~Direct(typed, m) /\ Faithful(typed, m)
      BY <2>2 DEF Direct, Faithful
    <3>3. Kept(typed, session, Append(q, m), macros, phase = "running")
      BY <1>1, <1>2, <3>1, <3>2, KeptAppend
    <3> QED BY <2>2, <3>3
  <2>3. CASE q # << >> /\ ~Direct(typed, q[1]) /\ r = Tail(q)
    <3>1. Kept(typed, session, Tail(q), macros, phase = "running")
      BY <1>1, <1>2, <2>3, KeptTail
    <3> QED BY <2>3, <3>1
  <2> QED BY <2>1, <2>2, <2>3 DEF q, r
<1>4. Kept(typed, session, r, macros, phase' = "running")
  BY <1>3, KeptShut
<1> QED BY <1>4 DEF r

\* No pipe gets a set_channel without a name that nobody asked for.
LEMMA CleanMoves ==
  ASSUME NEW pipes \in [Plugins -> Seq(MessageSet)], Clean(pipes), NEW r,
         \A q \in Plugins :
           \/ r[q] = pipes[q]
           \/ pipes[q] # << >> /\ r[q] = Tail(pipes[q])
           \/ \E m : ~Unasked(m) /\ r[q] = Append(pipes[q], m)
  PROVE  Clean(r)
<1> SUFFICES ASSUME NEW q \in Plugins
             PROVE  \A i \in 1..Len(r[q]) : ~Unasked(r[q][i])
  BY DEF Clean
<1> DEFINE s == pipes[q]
<1>1. s \in Seq(MessageSet) /\ \A i \in 1..Len(s) : ~Unasked(s[i])
  BY DEF Clean
<1>2. \/ r[q] = s
      \/ s # << >> /\ r[q] = Tail(s)
      \/ \E m : ~Unasked(m) /\ r[q] = Append(s, m)
  OBVIOUS
<1> HIDE DEF s
<1>3. CASE s # << >> /\ r[q] = Tail(s)
  BY <1>1, <1>3, TailFacts
<1>4. ASSUME NEW m, ~Unasked(m), r[q] = Append(s, m)
      PROVE  \A i \in 1..Len(r[q]) : ~Unasked(r[q][i])
  <2>1. s \in Seq(MessageSet \cup {m}) /\ m \in MessageSet \cup {m}
    BY <1>1
  <2> QED BY <1>1, <1>4, <2>1, AppendFacts
<1> QED BY <1>1, <1>2, <1>3, <1>4

LEMMA CleanGoesOn ==
  ASSUME TypeInv, Clean(pipe), NEW p \in Plugins, pipe[p] # << >>,
         \/ \A q \in Plugins : pipe'[q] = IF q = p THEN Tail(pipe[p]) ELSE pipe[q]
         \/ \E m : ~Unasked(m) /\ Instead(p, m)
  PROVE  Clean(pipe')
<1>1. /\ Rest(p) \in [Plugins -> Seq(MessageSet)]
      /\ \A q \in Plugins : Rest(p)[q] = IF q = p THEN Tail(pipe[p]) ELSE pipe[q]
      /\ pipe \in [Plugins -> Seq(MessageSet)]
  BY RestAt
<1>2. Clean(Rest(p))
  BY <1>1, CleanMoves
<1>3. \A q \in Plugins :
        \/ pipe'[q] = Rest(p)[q]
        \/ \E m : ~Unasked(m) /\ pipe'[q] = Append(Rest(p)[q], m)
  BY <1>1 DEF Instead
<1> QED BY <1>1, <1>2, <1>3, CleanMoves

LEMMA ShutdownClean ==
  ASSUME NEW pipes \in [Plugins -> Seq(MessageSet)], Clean(pipes), InitiateShutdown(pipes)
  PROVE  Clean(pipe')
<1> DEFINE m == About("shutdown", 0, Blank)
<1>1. m.kind = "shutdown"
  BY AboutFields DEF About
<1>2. \/ pipe' = pipes
      \/ pipe' = [p \in Plugins |-> Append(pipes[p], m)]
  BY DEF InitiateShutdown
<1> HIDE DEF m
<1>3. ~Unasked(m)
  BY <1>1 DEF Unasked
<1>4. \A q \in Plugins : pipe'[q] = pipes[q] \/ pipe'[q] = Append(pipes[q], m)
  BY <1>2
<1> QED BY <1>3, <1>4, CleanMoves

\* A plugin takes a message, and sends one or none.
PassesOn(p) ==
  \/ \A q \in Plugins : pipe'[q] = IF q = p THEN Tail(pipe[p]) ELSE pipe[q]
  \/ \E m : /\ m.kind \notin {"raw_edict", "register_replacer"}
            /\ Unasked(m) => Unasked(First(p))
            /\ Instead(p, m)

LEMMA EchoPassesOn ==
  ASSUME TypeInv, NEW p \in Plugins, pipe[p] # << >>,
         First(p).kind \notin {"shutdown", "raw_edict", "register_replacer"},
         pipe' = Echo(Rest(p), First(p))
  PROVE  PassesOn(p)
<1>1. \/ \A q \in Plugins : pipe'[q] = IF q = p THEN Tail(pipe[p]) ELSE pipe[q]
      \/ \E m : /\ m.kind = First(p).kind /\ m.line = First(p).line
                /\ m.channel = First(p).channel /\ Instead(p, m)
  BY EchoAt
<1> QED BY <1>1 DEF PassesOn, Unasked

LEMMA WritePassesOn ==
  ASSUME TypeInv, NEW p \in Plugins, pipe[p] # << >>,
         \/ pipe' = Rest(p)
         \/ \E m : /\ m.kind \notin {"raw_edict", "register_replacer", "set_channel"}
                   /\ Head(m.to) \in Plugins /\ pipe' = Put(Rest(p), m)
  PROVE  PassesOn(p)
<1>1. CASE pipe' = Rest(p)
  BY <1>1, RestAt DEF PassesOn
<1>2. ASSUME NEW m, m.kind \notin {"raw_edict", "register_replacer", "set_channel"},
             Head(m.to) \in Plugins, pipe' = Put(Rest(p), m)
      PROVE  PassesOn(p)
  <2>1. Instead(p, m)
    BY <1>2, WriteInstead
  <2> QED BY <1>2, <2>1 DEF PassesOn, Unasked
<1> QED BY <1>1, <1>2

\* The steps of the plugins but the meatgrinder.
OtherStep(p) ==
  \/ p = "antenna" /\ AntennaStep
  \/ p = "masseuse" /\ MasseuseStep
  \/ p = "logger" /\ LoggerStep
  \/ p = "ui" /\ (ConsoleStep \/ (Qt /\ Emit))

LEMMA OthersPassOn ==
  ASSUME TypeInv, NEW p \in Plugins, OtherStep(p)
  PROVE  /\ PassesOn(p) /\ pipe[p] # << >> /\ p # "meatgrinder"
         /\ phase \in {"running", "stopping"}
         /\ UNCHANGED <<ui, phase, macros, typed, session, tabs>>
         /\ \/ events' = events
            \/ \E e : (Unasked(e) => Unasked(First(p))) /\ events' = Append(events, e)
<1>1. ui \in {"console", "qt", "qtFirst"}
  BY DEF TypeInv
<1>2. CASE p = "antenna" /\ AntennaStep
  <2>1. /\ UNCHANGED <<ui, phase, macros, typed, session, tabs, events>> /\ pipe[p] # << >>
        /\ phase \in {"running", "stopping"}
    BY <1>2 DEF AntennaStep, SendEdict, SendJoin, SendLeft, Reads, qtVars, history
  <2>2. CASE SendEdict
    <3> DEFINE m == About("received", First(p).line, First(p).channel)
    <3>1. Head(m.to) \in Plugins /\ m.kind = "received"
      BY <1>1, MessageHead DEF About
    <3>2. pipe' = Put(Rest(p), m)
      BY <1>2, <2>2 DEF SendEdict, Write
    <3> HIDE DEF m
    <3> QED BY <1>2, <2>1, <3>1, <3>2, WritePassesOn
  <2>3. CASE SendJoin \/ SendLeft
    <3>1. /\ First(p).kind \in {"set_channel", "leave_channel"}
          /\ pipe' = Echo(Rest(p), First(p))
      BY <1>2, <2>3 DEF SendJoin, SendLeft, Reads
    <3> QED BY <1>2, <2>1, <3>1, EchoPassesOn
  <2> QED BY <1>2, <2>2, <2>3 DEF AntennaStep
<1>3. CASE p = "masseuse" /\ MasseuseStep
  <2> DEFINE m == About("display", First(p).line, First(p).channel)
  <2>1. /\ UNCHANGED <<ui, phase, macros, typed, session, tabs, events>> /\ pipe[p] # << >>
        /\ phase \in {"running", "stopping"} /\ pipe' = Put(Rest(p), m)
    BY <1>3 DEF MasseuseStep, Translate, Reads, Write, qtVars, history
  <2>2. m.kind = "display" /\ (m.to = <<"ui", "logger">> \/ m.to = <<"logger", "ui">>)
    BY DEF About, Message, Route
  <2> HIDE DEF m
  <2>3. Head(m.to) \in Plugins
    BY <2>2, Stages DEF Plugins
  <2> QED BY <1>3, <2>1, <2>2, <2>3, WritePassesOn
<1>4. CASE p = "logger" /\ LoggerStep
  <2>1. /\ UNCHANGED <<ui, phase, macros, typed, session, tabs, events>> /\ pipe[p] # << >>
        /\ phase \in {"running", "stopping"}
    BY <1>4 DEF LoggerStep, LogDisplay, SetMode, Reads, qtVars, history
  <2>2. CASE LogDisplay
    <3>1. First(p).kind = "display" /\ pipe' = Echo(Rest(p), First(p))
      BY <1>4, <2>2 DEF LogDisplay, Reads
    <3> QED BY <1>4, <2>1, <3>1, EchoPassesOn
  <2>3. CASE SetMode
    BY <1>4, <2>1, <2>3, WritePassesOn DEF SetMode, Swallow
  <2> QED BY <1>4, <2>2, <2>3 DEF LoggerStep
<1>5. CASE p = "ui" /\ ConsoleStep
  <2>1. /\ UNCHANGED <<ui, phase, macros, typed, session, tabs, events>> /\ pipe[p] # << >>
        /\ phase \in {"running", "stopping"}
    BY <1>5 DEF ConsoleStep, PrintLine, TellChannel, ShowOnly, Reads, qtVars, history
  <2>2. CASE PrintLine
    <3>1. First(p).kind = "display" /\ pipe' = Echo(Rest(p), First(p))
      BY <1>5, <2>2 DEF PrintLine, Reads, Reading
    <3> QED BY <1>5, <2>1, <3>1, EchoPassesOn
  <2>3. CASE TellChannel
    <3> DEFINE m == About("notify", First(p).line, Blank)
    <3>1. Head(m.to) \in Plugins /\ m.kind = "notify"
      BY <1>1, MessageHead DEF About
    <3>2. pipe' = Rest(p) \/ pipe' = Put(Rest(p), m)
      BY <1>5, <2>3 DEF TellChannel, Write, Swallow, Reading
    <3> HIDE DEF m
    <3> QED BY <1>5, <2>1, <3>1, <3>2, WritePassesOn
  <2>4. CASE ShowOnly
    BY <1>5, <2>1, <2>4, WritePassesOn DEF ShowOnly, Swallow
  <2> QED BY <1>5, <2>2, <2>3, <2>4 DEF ConsoleStep
<1>6. CASE p = "ui" /\ Qt /\ Emit
  <2> DEFINE h == First(p)
             e == [kind |-> h.kind, line |-> h.line, channel |-> h.channel]
  <2>1. /\ UNCHANGED <<ui, phase, macros, typed, session, tabs>> /\ pipe[p] # << >>
        /\ phase \in {"running", "stopping"} /\ events' = Append(events, e)
        /\ h.kind \in {"display", "set_channel", "leave_channel"} /\ pipe' = Echo(Rest(p), h)
    BY <1>6 DEF Emit, Reads, Reading, history
  <2>2. Unasked(e) => Unasked(h)
    BY DEF Unasked
  <2>3. PassesOn(p)
    BY <2>1, EchoPassesOn
  <2> HIDE DEF e, h
  <2> QED BY <1>6, <2>1, <2>2, <2>3 DEF h
<1> QED BY <1>2, <1>3, <1>4, <1>5, <1>6 DEF OtherStep

EventsClean(es) == \A i \in 1..Len(es) : ~Unasked(es[i])

Unblank == Qt /\ AllNamed(typed, session) => Blank \notin tabs /\ Clean(pipe) /\ EventsClean(events)

LEMMA SaneIs == Sane <=> Kept(typed, session, pipe["meatgrinder"], macros, phase = "running") /\ Unblank
BY DEF Sane, Kept, NoBlankTab, Unblank, EventsClean

LEMMA EventsStayClean ==
  ASSUME TypeInv, EventsClean(events)
  PROVE  /\ events # << >> => EventsClean(Tail(events)) /\ ~Unasked(Head(events))
         /\ \A e : ~Unasked(e) => EventsClean(Append(events, e))
<1>1. events \in Seq(Signal)
  BY DEF TypeInv, GoodEvents
<1>2. ASSUME events # << >>
      PROVE  EventsClean(Tail(events)) /\ ~Unasked(Head(events))
  BY <1>1, <1>2, TailFacts DEF EventsClean
<1>3. ASSUME NEW e, ~Unasked(e)
      PROVE  EventsClean(Append(events, e))
  <2>1. events \in Seq(Signal \cup {e}) /\ e \in Signal \cup {e}
    BY <1>1
  <2> QED BY <1>3, <2>1, AppendFacts DEF EventsClean
<1> QED BY <1>2, <1>3

\* A step after which the client is not worse off.
Sound ==
  /\ IsABag(macros')
  /\ \/ phase' = "crashed" /\ Excused(typed, session, ui)'
     \/ phase' # "crashed" /\ Sane'

LEMMA SoundIs ==
  ASSUME IsABag(macros'), phase' # "crashed", Unblank',
         Kept(typed, session, pipe'["meatgrinder"], macros', phase' = "running"),
         UNCHANGED <<typed, session>>
  PROVE  Sound
<1>1. Sane' <=> Kept(typed', session', pipe'["meatgrinder"], macros', phase' = "running") /\ Unblank'
  BY DEF Sane, Kept, NoBlankTab, Unblank, EventsClean
<1> QED BY <1>1 DEF Sound

LEMMA GrinderSound ==
  ASSUME TypeInv, TypeInv', Careful(typed), IsABag(macros), Sane, MeatgrinderStep
  PROVE  Sound
<1> DEFINE g == "meatgrinder"
<1>1. g \in Plugins /\ UNCHANGED <<ui, typed, session, tabs, events>>
  BY DEF Plugins, MeatgrinderStep, qtVars, history
<1>2. Kept(typed, session, pipe[g], macros, phase = "running") /\ Unblank
  BY SaneIs
<1>3. Ground
  BY <1>2, GrinderKept
<1>4. CASE phase' = "crashed"
  BY <1>1, <1>3, <1>4 DEF Ground, Sound
<1>5. CASE phase' # "crashed"
  <2>1. pipe[g] # << >>
    BY GrinderShape
  <2>2. pipe \in [Plugins -> Seq(MessageSet)] /\ ui \in {"console", "qt", "qtFirst"}
    BY DEF TypeInv, GoodPipes
  <2>3. ASSUME Clean(pipe)
        PROVE  Clean(pipe')
    <3>1. CASE pipe' = Rest(g)
      <4>1. \A q \in Plugins : pipe'[q] = IF q = g THEN Tail(pipe[g]) ELSE pipe[q]
        BY <1>1, <2>1, <3>1, RestAt
      <4> QED BY <1>1, <2>1, <2>3, <4>1, CleanGoesOn
    <3>2. ASSUME NEW m, Head(m.to) \in Plugins, ~Unasked(m), pipe' = Put(Rest(g), m)
          PROVE  Clean(pipe')
      <4>1. Instead(g, m)
        BY <1>1, <2>1, <3>2, WriteInstead
      <4> QED BY <1>1, <2>1, <2>3, <3>2, <4>1, CleanGoesOn
    <3>3. CASE HandleQuit
      <4>1. /\ Rest(g) \in [Plugins -> Seq(MessageSet)]
            /\ \A q \in Plugins : Rest(g)[q] = IF q = g THEN Tail(pipe[g]) ELSE pipe[q]
        BY <1>1, <2>1, RestAt
      <4>2. Clean(Rest(g))
        BY <2>1, <2>2, <2>3, <4>1, CleanMoves
      <4> QED BY <3>3, <4>1, <4>2, ShutdownClean DEF HandleQuit
    <3>4. CASE Reads(g, "raw_edict")
      <4>1. Edict.line # 0
        BY <3>4, EdictFacts
      <4>2. ASSUME NEW m, m.line = Edict.line, Head(m.to) \in Plugins, pipe' = Put(Rest(g), m)
            PROVE  Clean(pipe')
        <5>1. ~Unasked(m)
          BY <4>1, <4>2 DEF Unasked
        <5> QED BY <3>2, <4>2, <5>1
      <4> QED BY <1>5, <3>1, <3>3, <4>2, GrinderShape DEF Crash
    <3>5. CASE Define \/ Erase
      BY <1>5, <3>1, <3>5 DEF Define, Erase, Undefined, Crash, Swallow
    <3>6. CASE DisplayCommands
      <4> DEFINE m == About("notify", Edict.line, Edict.channel)
      <4>1. Head(m.to) \in Plugins /\ m.kind = "notify"
        BY <2>2, MessageHead DEF About
      <4>2. pipe' = Put(Rest(g), m)
        BY <3>6 DEF DisplayCommands, Answer, Write
      <4> HIDE DEF m
      <4> QED BY <3>2, <4>1, <4>2 DEF Unasked
    <3>7. Reads(g, "raw_edict") \/ Define \/ Erase \/ DisplayCommands
      BY DEF MeatgrinderStep, DropEmpty, Rewrite, Complain, HandleNormal, HandleMe, HandleQuit,
             HandleChannelChange, HandleChannelLeave, HandleOnly, HandleCommands,
             HandleUserCommand, HandleEraseCommand, Grinds, Handles
    <3> QED BY <3>4, <3>5, <3>6, <3>7
  <2>4. Unblank'
    BY <1>1, <1>2, <2>3 DEF Unblank, Qt
  <2> QED BY <1>1, <1>3, <1>5, <2>4, SoundIs DEF Ground
<1> QED BY <1>4, <1>5

LEMMA OthersSound ==
  ASSUME TypeInv, TypeInv', IsABag(macros), Sane, NEW p \in Plugins, OtherStep(p)
  PROVE  Sound
<1>1. /\ PassesOn(p) /\ pipe[p] # << >> /\ p # "meatgrinder"
      /\ phase \in {"running", "stopping"}
      /\ UNCHANGED <<ui, phase, macros, typed, session, tabs>>
      /\ \/ events' = events
         \/ \E e : (Unasked(e) => Unasked(First(p))) /\ events' = Append(events, e)
  BY OthersPassOn
<1>2. Kept(typed, session, pipe["meatgrinder"], macros, phase = "running") /\ Unblank
  BY SaneIs
<1>3. \/ pipe'["meatgrinder"] = pipe["meatgrinder"]
      \/ \E m : /\ m.kind \notin {"raw_edict", "register_replacer"}
                /\ pipe'["meatgrinder"] = Append(pipe["meatgrinder"], m)
  <2>1. "meatgrinder" \in Plugins
    BY DEF Plugins
  <2> QED BY <1>1, <2>1 DEF PassesOn, Instead
<1>4. Kept(typed, session, pipe'["meatgrinder"], macros', phase' = "running")
  <2>1. Kept(typed, session, pipe'["meatgrinder"], macros, phase' = "running")
    BY <1>1, <1>2, <1>3, OthersKept
  <2> QED BY <1>1, <2>1
<1>5. ASSUME Clean(pipe), EventsClean(events)
      PROVE  Clean(pipe') /\ EventsClean(events')
  <2>1. ~Unasked(First(p))
    <3>1. First(p) = pipe[p][1] /\ 1 \in 1..Len(pipe[p])
      BY <1>1, FrontGood
    <3> QED BY <1>5, <3>1 DEF Clean
  <2>2. Clean(pipe')
    BY <1>1, <1>5, <2>1, CleanGoesOn DEF PassesOn
  <2> QED BY <1>1, <1>5, <2>1, <2>2, EventsStayClean
<1>6. Unblank'
  BY <1>1, <1>2, <1>5 DEF Unblank, Qt
<1> QED BY <1>1, <1>4, <1>6, SoundIs

LEMMA StopSound ==
  ASSUME TypeInv, TypeInv', IsABag(macros), Sane, NEW p \in Plugins, Stop(p)
  PROVE  Sound
<1>1. /\ pipe[p] # << >> /\ First(p).kind = "shutdown" /\ pipe' = Rest(p)
      /\ phase' \in {"stopped", "stopping"}
      /\ UNCHANGED <<ui, macros, typed, session, tabs, events>>
  BY DEF Stop, Reads, qtVars, history
<1>2. Kept(typed, session, pipe["meatgrinder"], macros, phase = "running") /\ Unblank
  BY SaneIs
<1>3. \A q \in Plugins : pipe'[q] = IF q = p THEN Tail(pipe[p]) ELSE pipe[q]
  BY <1>1, RestAt
<1>4. \/ pipe'["meatgrinder"] = pipe["meatgrinder"]
      \/ /\ pipe["meatgrinder"] # << >> /\ ~Direct(typed, pipe["meatgrinder"][1])
         /\ pipe'["meatgrinder"] = Tail(pipe["meatgrinder"])
  <2>1. "meatgrinder" \in Plugins
    BY DEF Plugins
  <2>2. First(p) = pipe[p][1]
    BY <1>1, FrontGood
  <2>3. ~Direct(typed, First(p))
    BY <1>1 DEF Direct
  <2> QED BY <1>1, <1>3, <2>1, <2>2, <2>3
<1>5. Kept(typed, session, pipe'["meatgrinder"], macros', phase' = "running")
  <2>1. Kept(typed, session, pipe'["meatgrinder"], macros, phase' = "running")
    BY <1>1, <1>2, <1>4, OthersKept
  <2> QED BY <1>1, <2>1
<1>6. Clean(pipe) => Clean(pipe')
  BY <1>1, <1>3, CleanGoesOn
<1>7. Unblank'
  BY <1>1, <1>2, <1>6 DEF Unblank, Qt
<1> QED BY <1>1, <1>5, <1>7, SoundIs

LEMMA QuitSound ==
  ASSUME TypeInv, TypeInv', IsABag(macros), Sane, Quit
  PROVE  Sound
<1> DEFINE m == About("shutdown", 0, Blank)
<1>1. /\ InitiateShutdown(pipe) /\ phase = "running" /\ phase' = "stopping"
      /\ UNCHANGED <<ui, macros, typed, session, tabs, events>>
  BY DEF Quit, InitiateShutdown, qtVars, history
<1>2. Kept(typed, session, pipe["meatgrinder"], macros, phase = "running") /\ Unblank
  BY SaneIs
<1>3. pipe \in [Plugins -> Seq(MessageSet)] /\ "meatgrinder" \in Plugins
  BY DEF TypeInv, GoodPipes, Plugins
<1>4. m.kind = "shutdown"
  BY AboutFields DEF About
<1>5. pipe'["meatgrinder"] = Append(pipe["meatgrinder"], m)
  BY <1>1, <1>3 DEF InitiateShutdown
<1> HIDE DEF m
<1>6. Kept(typed, session, pipe'["meatgrinder"], macros', phase' = "running")
  <2>1. \E n : /\ n.kind \notin {"raw_edict", "register_replacer"}
               /\ pipe'["meatgrinder"] = Append(pipe["meatgrinder"], n)
    BY <1>4, <1>5
  <2>2. Kept(typed, session, pipe'["meatgrinder"], macros, phase' = "running")
    BY <1>1, <1>2, <2>1, OthersKept
  <2> QED BY <1>1, <2>2
<1>7. Clean(pipe) => Clean(pipe')
  BY <1>1, <1>3, ShutdownClean
<1>8. Unblank'
  BY <1>1, <1>2, <1>7 DEF Unblank, Qt
<1> QED BY <1>1, <1>6, <1>8, SoundIs

\* The GUI thread takes an event.
LEMMA WindowSound ==
  ASSUME TypeInv, TypeInv', Careful(typed), IsABag(macros), Sane, Qt, WindowStep
  PROVE  Sound
<1> DEFINE e == Head(events)
<1>1. /\ events # << >> /\ events' = Tail(events) /\ phase \in {"running", "stopping"}
      /\ UNCHANGED <<ui, macros, typed, session>>
  BY DEF WindowStep, display, focus, leave, Takes, history
<1>2. Kept(typed, session, pipe["meatgrinder"], macros, phase = "running") /\ Unblank
  BY SaneIs
<1>3. /\ pipe \in [Plugins -> Seq(MessageSet)] /\ ui # "console"
      /\ GoodEvents(typed, session, events)
  BY DEF TypeInv, GoodPipes, Qt
<1>4. CASE Blank \in tabs /\ Crash
  <2>1. ~AllNamed(typed, session)
    BY <1>2, <1>4 DEF Unblank
  <2>2. Excused(typed, session, ui)
    BY <1>3, <2>1 DEF AllNamed, Excused
  <2> QED BY <1>1, <1>4, <2>2 DEF Crash, Sound
<1>5. ASSUME UNCHANGED phase, pipe'["meatgrinder"] = pipe["meatgrinder"],
             AllNamed(typed, session) => Blank \notin tabs' /\ Clean(pipe')
      PROVE  Sound
  <2>1. Kept(typed, session, pipe'["meatgrinder"], macros', phase' = "running")
    BY <1>1, <1>2, <1>5
  <2>2. EventsClean(events) => EventsClean(events')
    BY <1>1, EventsStayClean
  <2>3. Unblank'
    BY <1>1, <1>2, <1>5, <2>2 DEF Unblank, Qt
  <2> QED BY <1>1, <1>5, <2>1, <2>3, SoundIs
<1>6. CASE display
  <2>1. tabs' = tabs /\ ((Blank \in tabs /\ Crash) \/ UNCHANGED <<phase, pipe>>)
    BY <1>6 DEF display
  <2> QED BY <1>2, <1>4, <1>5, <2>1 DEF Unblank
<1>7. CASE leave
  <2>1. tabs' \subseteq tabs /\ UNCHANGED <<phase, pipe>>
    BY <1>7 DEF leave
  <2> QED BY <1>2, <1>5, <2>1 DEF Unblank
<1>8. CASE focus
  <2> DEFINE m == About("set_channel", e.line, e.channel)
  <2>1. /\ UNCHANGED phase /\ e.kind = "set_channel"
        /\ \/ UNCHANGED <<tabs, pipe>>
           \/ tabs' = tabs \cup {e.channel} /\ pipe' = Put(pipe, m)
    BY <1>8 DEF focus, Takes
  <2>2. /\ m.kind = "set_channel" /\ m.line = e.line /\ m.channel = e.channel
        /\ Head(m.to) = "ui" /\ "ui" \in Plugins
    BY AboutFields, WindowFirst DEF About, Plugins
  <2> HIDE DEF m
  <2>3. CASE UNCHANGED <<tabs, pipe>>
    BY <1>2, <1>5, <2>1, <2>3 DEF Unblank
  <2>4. CASE tabs' = tabs \cup {e.channel} /\ pipe' = Put(pipe, m)
    <3>1. \A q \in Plugins :
            pipe'[q] = IF phase = "running" /\ q = "ui" THEN Append(pipe[q], m) ELSE pipe[q]
      BY <1>3, <2>2, <2>4, PutAt
    <3>2. pipe'["meatgrinder"] = pipe["meatgrinder"]
      BY <3>1 DEF Plugins
    <3>3. ASSUME AllNamed(typed, session)
          PROVE  e.channel # Blank
      <4>1. ~Unasked(e)
        BY <1>1, <1>2, <3>3, EventsStayClean DEF Unblank
      <4>2. SUFFICES ASSUME e.channel = Blank
                     PROVE  FALSE
        OBVIOUS
      <4>3. e.line # 0
        BY <2>1, <4>1, <4>2 DEF Unasked
      <4>4. Origin(typed, session, e) /\ e \in Signal
        BY <1>1, <1>3, TakeEvent
      <4>5. typed[e.line].session = session /\ Nameless(typed, e.line, "/channel")
        BY <2>1, <4>2, <4>3, <4>4 DEF Origin
      <4>6. e.line \in 1..Len(typed)
        <5>1. e.line \in Nat /\ Len(typed) \in Nat /\ e.line <= Len(typed)
          BY <4>4 DEF Signal, Origin, TypeInv, HistoryType
        <5> QED BY <4>3, <5>1
      <4>7. ~Mentioned(typed, {"/channel"})
        BY CarefulWords
      <4> QED BY <3>3, <4>5, <4>6, <4>7 DEF Nameless, AllNamed
    <3>4. ASSUME AllNamed(typed, session)
          PROVE  Blank \notin tabs' /\ Clean(pipe')
      <4>1. ~Unasked(m) /\ Clean(pipe) /\ Blank \notin tabs
        BY <1>2, <2>2, <3>3, <3>4 DEF Unasked, Unblank
      <4>2. Clean(pipe')
        BY <1>3, <3>1, <4>1, CleanMoves
      <4> QED BY <2>4, <3>3, <3>4, <4>1, <4>2
    <3> QED BY <1>5, <2>1, <3>2, <3>4
  <2> QED BY <2>1, <2>3, <2>4
<1> QED BY <1>6, <1>7, <1>8 DEF WindowStep

LEMMA ConnectSound ==
  ASSUME TypeInv, TypeInv', IsABag(macros), Sane, Connect
  PROVE  Sound
<1> DEFINE kind == IF connected THEN "leave_channel" ELSE "set_channel"
           order == SetToSeq(tabs)
           ms == [i \in DOMAIN order |-> About(kind, 0, order[i])]
<1>1. /\ Qt /\ kind \in {"set_channel", "leave_channel"} /\ phase = "running"
      /\ UNCHANGED <<ui, phase, macros, typed, session, tabs, events>>
      /\ pipe' = [pipe EXCEPT !["ui"] = @ \o ms]
  BY DEF Connect, Act
<1>2. Kept(typed, session, pipe["meatgrinder"], macros, phase = "running") /\ Unblank
  BY SaneIs
<1>3. pipe \in [Plugins -> Seq(MessageSet)] /\ "ui" \in Plugins /\ "meatgrinder" \in Plugins
  BY DEF TypeInv, GoodPipes, Plugins
<1> HIDE DEF kind
<1>4. ms \in Seq(MessageSet) /\ \A i \in 1..Len(ms) : ms[i].channel \in tabs
  BY <1>1, TabMessages
<1> HIDE DEF ms
<1>5. \A q \in Plugins : pipe'[q] = IF q = "ui" THEN pipe[q] \o ms ELSE pipe[q]
  BY <1>1, <1>3
<1>6. ASSUME Clean(pipe), Blank \notin tabs
      PROVE  Clean(pipe')
  <2>1. ASSUME NEW q \in Plugins, q # "ui"
        PROVE  \A i \in 1..Len(pipe'[q]) : ~Unasked(pipe'[q][i])
    BY <1>5, <1>6, <2>1 DEF Clean
  <2>2. \A i \in 1..Len(pipe'["ui"]) : ~Unasked(pipe'["ui"][i])
    <3> DEFINE s == pipe["ui"]
               r == pipe'["ui"]
    <3>1. s \in Seq(MessageSet) /\ r = s \o ms /\ \A i \in 1..Len(s) : ~Unasked(s[i])
      BY <1>3, <1>5, <1>6 DEF Clean
    <3>2. \A i \in 1..Len(ms) : ~Unasked(ms[i])
      BY <1>4, <1>6 DEF Unasked
    <3> HIDE DEF s, r
    <3>3. /\ Len(s \o ms) = Len(s) + Len(ms) /\ Len(s) \in Nat /\ Len(ms) \in Nat
          /\ \A i \in 1..(Len(s) + Len(ms)) :
               (s \o ms)[i] = IF i <= Len(s) THEN s[i] ELSE ms[i - Len(s)]
      BY <1>4, <3>1, ConcatProperties
    <3>4. ASSUME NEW i \in 1..Len(r)
          PROVE  ~Unasked(r[i])
      <4>1. CASE i <= Len(s)
        <5>1. i \in 1..Len(s) /\ r[i] = s[i]
          BY <3>1, <3>3, <3>4, <4>1
        <5> QED BY <3>1, <5>1
      <4>2. CASE ~(i <= Len(s))
        <5>1. i - Len(s) \in 1..Len(ms) /\ r[i] = ms[i - Len(s)]
          BY <3>1, <3>3, <3>4, <4>2
        <5> QED BY <3>2, <5>1
      <4> QED BY <4>1, <4>2
    <3> QED BY <3>4 DEF r
  <2> QED BY <2>1, <2>2 DEF Clean
<1>7. Kept(typed, session, pipe'["meatgrinder"], macros', phase' = "running")
  <2>1. pipe'["meatgrinder"] = pipe["meatgrinder"]
    BY <1>3, <1>5
  <2> QED BY <1>1, <1>2, <2>1
<1>8. Unblank'
  BY <1>1, <1>2, <1>6 DEF Unblank, Qt
<1> QED BY <1>1, <1>7, <1>8, SoundIs

LEMMA ChooseSound ==
  ASSUME TypeInv, TypeInv', IsABag(macros), Sane, NEW mo, ChooseMode(mo)
  PROVE  Sound
<1> DEFINE m == Message("logging", 0, Line(mo, << >>), Blank)
<1>1. /\ phase = "running" /\ pipe' = Put(pipe, m)
      /\ UNCHANGED <<ui, phase, macros, typed, session, tabs, events>>
  BY DEF ChooseMode, Act, qtVars
<1>2. Kept(typed, session, pipe["meatgrinder"], macros, phase = "running") /\ Unblank
  BY SaneIs
<1>3. /\ pipe \in [Plugins -> Seq(MessageSet)]
      /\ "logger" \in Plugins /\ "meatgrinder" \in Plugins
  BY DEF TypeInv, GoodPipes, Plugins
<1>4. m.kind = "logging" /\ m.to = <<"logger">>
  BY AboutFields DEF Route
<1> HIDE DEF m
<1>5. Head(m.to) = "logger"
  BY <1>4, Stages
<1>6. \A q \in Plugins : pipe'[q] = IF q = "logger" THEN Append(pipe[q], m) ELSE pipe[q]
  BY <1>1, <1>3, <1>5, PutAt
<1>7. Clean(pipe) => Clean(pipe')
  <2>1. ~Unasked(m)
    BY <1>4 DEF Unasked
  <2> QED BY <1>3, <1>6, <2>1, CleanMoves
<1>8. Kept(typed, session, pipe'["meatgrinder"], macros', phase' = "running")
  <2>1. pipe'["meatgrinder"] = pipe["meatgrinder"]
    BY <1>3, <1>6
  <2> QED BY <1>1, <1>2, <2>1
<1>9. Unblank'
  BY <1>1, <1>2, <1>7 DEF Unblank, Qt
<1> QED BY <1>1, <1>8, <1>9, SoundIs

\* A line is typed.
LEMMA SendSound ==
  ASSUME TypeInv, TypeInv', IsABag(macros), Sane,
         NEW text, text.cmd \in Words, text.args \in Seq(Channels), NEW chan \in Channels,
         SendLine(text, chan), UNCHANGED <<tabs, events>>
  PROVE  Sound
<1> DEFINE x == [cmd |-> text.cmd, args |-> text.args, channel |-> chan, session |-> session]
           n == Len(typed) + 1
           m == Message("raw_edict", n, text, chan)
           t == Append(typed, x)
           q == pipe["meatgrinder"]
<1>1. /\ typed \in Seq(TypedLine) /\ session \in Nat /\ Len(typed) \in Nat
      /\ pipe \in [Plugins -> Seq(MessageSet)] /\ "meatgrinder" \in Plugins
      /\ GoodPipes(ui, typed, session, pipe)
  BY LogTypes DEF TypeInv, HistoryType, GoodPipes, Plugins
<1>2. /\ phase = "running" /\ pipe' = Put(pipe, m) /\ typed' = t
      /\ UNCHANGED <<ui, phase, macros, session>>
  BY DEF SendLine, Act
<1>3. /\ m.kind = "raw_edict" /\ m.line = n /\ m.cmd = text.cmd /\ m.args = text.args
      /\ m.to = <<"meatgrinder">>
  BY AboutFields DEF Route
<1>4. x \in TypedLine /\ x.cmd = text.cmd /\ x.args = text.args /\ x.session = session
  BY <1>1 DEF TypedLine
<1> HIDE DEF x, m
<1>5. /\ Len(t) = n /\ t[n] = x /\ n # 0
      /\ \A k \in 1..Len(typed) : k \in 1..n /\ t[k] = typed[k]
  BY <1>1, <1>4, TypedGrows
<1>6. \A p \in Plugins : pipe'[p] = IF p = "meatgrinder" THEN Append(pipe[p], m) ELSE pipe[p]
  <2>1. Head(m.to) = "meatgrinder"
    BY <1>3
  <2> QED BY <1>1, <1>2, <2>1, PutAt
<1>7. q \in Seq(MessageSet) /\ pipe'["meatgrinder"] = Append(q, m) /\ m \in MessageSet
  <2>1. pipe'["meatgrinder"] \in Seq(MessageSet)
    BY <1>1 DEF TypeInv, GoodPipes
  <2>2. q \in Seq(MessageSet) /\ pipe'["meatgrinder"] = Append(q, m)
    BY <1>1, <1>6
  <2> QED BY <2>1, <2>2, LastIs
<1>8. Kept(typed, session, q, macros, TRUE) /\ Unblank
  <2>1. (phase = "running") = TRUE
    BY <1>2
  <2>2. Kept(typed, session, q, macros, phase = "running") /\ Unblank
    BY SaneIs
  <2> QED BY <2>1, <2>2
<1>9. \A i \in 1..Len(q) :
        q[i].kind \in {"raw_edict", "register_replacer"} => q[i].line \in 1..Len(typed)
  <2> SUFFICES ASSUME NEW i \in 1..Len(q), q[i].kind \in {"raw_edict", "register_replacer"}
               PROVE  q[i].line \in 1..Len(typed)
    OBVIOUS
  <2>1. Good(ui, typed, session, "meatgrinder", q[i])
    BY <1>1 DEF GoodPipes
  <2>2. q[i].line \in Nat /\ q[i].line <= Len(typed)
    BY <2>1, FieldTypes DEF Good, Origin
  <2>3. q[i].line # 0
    BY <1>8, <2>1 DEF Good, Worded, Kept, AllFaithful, Faithful
  <2> QED BY <1>1, <2>2, <2>3
<1> HIDE DEF t, n, q
<1>10. AllFaithful(t, q)
  <2> SUFFICES ASSUME NEW i \in 1..Len(q)
               PROVE  Faithful(t, q[i])
    BY DEF AllFaithful
  <2>1. Faithful(typed, q[i])
    BY <1>8 DEF Kept, AllFaithful
  <2>2. q[i].kind \in {"raw_edict", "register_replacer"} => t[q[i].line] = typed[q[i].line]
    BY <1>5, <1>9
  <2> QED BY <2>1, <2>2 DEF Faithful
<1>11. Faithful(t, m)
  BY <1>3, <1>4, <1>5 DEF Faithful, MacroWords
<1>12. Kept(t, session, Append(q, m), macros, TRUE)
  <2>1. AllFaithful(t, Append(q, m))
    BY <1>7, <1>10, <1>11, FaithfulMore
  <2>2. Books(t, session, Append(q, m), macros, TRUE)
    <3>1. Books(typed, session, q, macros, TRUE) /\ m.line = Len(typed) + 1
      BY <1>3, <1>8 DEF Kept, n
    <3> QED BY <1>1, <1>3, <1>4, <1>7, <1>9, <3>1, TypedBooks DEF t
  <2> QED BY <1>8, <2>1, <2>2 DEF Kept
<1>13. Kept(typed', session', pipe'["meatgrinder"], macros', phase' = "running")
  <2>1. (phase' = "running") = TRUE
    BY <1>2
  <2> QED BY <1>2, <1>7, <1>12, <2>1
<1>14. AllNamed(typed', session') => AllNamed(typed, session)
  BY <1>2, <1>5 DEF AllNamed
<1>15. Clean(pipe) => Clean(pipe')
  <2>1. ~Unasked(m)
    BY <1>3 DEF Unasked
  <2> QED BY <1>1, <1>6, <2>1, CleanMoves
<1>16. Unblank'
  BY <1>2, <1>8, <1>14, <1>15 DEF Unblank, Qt
<1>17. Sane' <=> Kept(typed', session', pipe'["meatgrinder"], macros', phase' = "running") /\ Unblank'
  BY DEF Sane, Kept, NoBlankTab, Unblank, EventsClean
<1> QED BY <1>2, <1>13, <1>16, <1>17 DEF Sound

\* With the books empty.
LEMMA FreshSane ==
  ASSUME Len(typed) \in Nat, \A n \in 1..Len(typed) : typed[n].session # session,
         phase = "running", pipe = [p \in Plugins |-> << >>], macros = BuiltIn,
         tabs = FirstTabs, events = << >>
  PROVE  Sane
<1>1. Len(<< >>) = 0
  OBVIOUS
<1>2. pipe["meatgrinder"] = << >> /\ \A p \in Plugins : Len(pipe[p]) = 0
  BY <1>1 DEF Plugins
<1>3. AllFaithful(typed, pipe["meatgrinder"])
  BY <1>1, <1>2 DEF AllFaithful
<1>4. WithArguments(macros)
  BY BuiltInCopies
<1>5. Books(typed, session, pipe["meatgrinder"], macros, phase = "running")
  <2>1. (phase = "running") = TRUE
    OBVIOUS
  <2>2. Books(typed, session, << >>, BuiltIn, TRUE)
    BY FirstBooks
  <2> QED BY <1>2, <2>1, <2>2
<1>6. Blank \notin tabs
  BY ConversationAssumption DEF FirstTabs
<1>7. Clean(pipe) /\ \A i \in 1..Len(events) : ~Unasked(events[i])
  BY <1>1, <1>2 DEF Clean
<1> QED BY <1>3, <1>4, <1>5, <1>6, <1>7 DEF Sane, NoBlankTab

LEMMA InitCrash ==
  ASSUME Init
  PROVE  CrashInv
<1>1. /\ phase = "running" /\ pipe = [p \in Plugins |-> << >>] /\ macros = BuiltIn
      /\ tabs = FirstTabs /\ events = << >> /\ typed = << >>
  BY DEF Init
<1>2. Len(typed) = 0
  BY <1>1
<1>3. Sane
  BY <1>1, <1>2, FreshSane
<1>4. IsABag(macros)
  BY <1>1, BuiltInCopies
<1> QED BY <1>1, <1>3, <1>4 DEF CrashInv

LEMMA RestartCrash ==
  ASSUME TypeInv, LogInv, Restart
  PROVE  CrashInv'
<1>1. /\ phase' = "running" /\ pipe' = [p \in Plugins |-> << >>] /\ macros' = BuiltIn
      /\ tabs' = FirstTabs' /\ events' = << >> /\ typed' = typed /\ session' = session + 1
  BY DEF Restart, FirstTabs
<1>2. typed \in Seq(TypedLine) /\ Len(typed) \in Nat /\ session \in Nat
  BY LogTypes DEF TypeInv, HistoryType
<1>3. ASSUME NEW n \in 1..Len(typed)
      PROVE  typed[n].session # session + 1
  <2>1. typed[n].session \in Nat
    <3>1. typed[n] \in TypedLine
      BY <1>2
    <3> QED BY <3>1 DEF TypedLine
  <2>2. typed[n].session <= session
    BY DEF LogInv, Wanted
  <2> QED BY <1>2, <2>1, <2>2
<1>4. Len(<< >>) = 0
  OBVIOUS
<1>5. pipe'["meatgrinder"] = << >> /\ \A p \in Plugins : Len(pipe'[p]) = 0
  BY <1>1, <1>4 DEF Plugins
<1>6. Kept(typed', session', pipe'["meatgrinder"], macros', phase' = "running")
  <2>1. (phase' = "running") = TRUE
    BY <1>1
  <2>2. AllFaithful(typed, << >>) /\ WithArguments(BuiltIn)
    BY <1>4, BuiltInCopies DEF AllFaithful
  <2>3. Books(typed, session + 1, << >>, BuiltIn, TRUE)
    BY <1>2, <1>3, FirstBooks
  <2> QED BY <1>1, <1>5, <2>1, <2>2, <2>3 DEF Kept
<1>7. Blank \notin tabs'
  BY <1>1, ConversationAssumption DEF FirstTabs
<1>8. Clean(pipe') /\ EventsClean(events')
  BY <1>1, <1>4, <1>5 DEF Clean, EventsClean
<1>9. Sane'
  BY <1>6, <1>7, <1>8 DEF Sane, Kept, NoBlankTab, Unblank, EventsClean
<1>10. IsABag(macros')
  BY <1>1, BuiltInCopies
<1> QED BY <1>1, <1>9, <1>10 DEF CrashInv

\* The macros are a bag, whatever the words.
LEMMA BagStays ==
  ASSUME TypeInv, LogInv, IsABag(macros), [Next]_vars
  PROVE  IsABag(macros')
<1>1. CASE macros' = macros
  BY <1>1
<1>2. CASE Define
  BY <1>2, WithCopies DEF Define
<1>3. CASE Erase
  <2> DEFINE found == IF Definition.pattern = "" THEN Macros(macros, Definition.command)
                      ELSE Matching(macros, Definition)
  <2>1. \A d \in found : d \in BagToSet(macros)
    BY DEF Macros, Matching
  <2>2. (\E d \in found : macros' = Without(macros, d)) \/ macros' = macros
    BY <1>3 DEF Erase, Undefined
  <2> HIDE DEF found
  <2>3. ASSUME NEW d \in found, macros' = Without(macros, d)
        PROVE  IsABag(macros')
    <3>1. d \in BagToSet(macros)
      BY <2>1
    <3> QED BY <2>3, <3>1, WithoutCopies
  <2> QED BY <1>1, <2>2, <2>3
<1>4. CASE Restart
  BY <1>4, BuiltInCopies DEF Restart
<1>5. CASE UNCHANGED vars
  BY <1>1, <1>5 DEF vars, grinderVars
<1>6. CASE Qt /\ WindowStep
  BY <1>1, <1>6 DEF WindowStep
<1>7. ASSUME NEW p \in Plugins, PluginStep(p)
      PROVE  macros' = macros \/ Define \/ Erase
  <2>1. Stop(p) \/ AntennaStep \/ MasseuseStep \/ LoggerStep \/ ConsoleStep \/ Emit => macros' = macros
    BY DEF Stop, AntennaStep, MasseuseStep, LoggerStep, ConsoleStep, Emit
  <2>2. MeatgrinderStep => macros' = macros \/ Define \/ Erase
    BY DEF MeatgrinderStep, DropEmpty, Rewrite, Complain, HandleNormal, HandleMe, HandleQuit,
           HandleChannelChange, HandleChannelLeave, HandleOnly, HandleCommands,
           HandleUserCommand, HandleEraseCommand, DisplayCommands, Answer, Register, Undefined
  <2> QED BY <1>7, <2>1, <2>2 DEF PluginStep
<1>8. CASE UserStep
  <2>1. UserStep => macros' = macros \/ Restart
    BY DEF UserStep, send_input, Quit, request_edict_send, SendLine, Connect, ChooseMode
  <2> QED BY <1>1, <1>4, <1>8, <2>1
<1> QED BY <1>1, <1>2, <1>3, <1>5, <1>6, <1>7, <1>8 DEF Next

LEMMA StepsAre ==
  ASSUME NEW p, PluginStep(p)
  PROVE  Stop(p) \/ MeatgrinderStep \/ OtherStep(p)
BY DEF PluginStep, OtherStep

\* A program that has crashed can only be started again.
LEMMA CrashedStays ==
  ASSUME TypeInv, phase = "crashed", [Next]_vars, ~Restart
  PROVE  UNCHANGED vars
<1>1. ASSUME NEW p \in Plugins, PluginStep(p)
      PROVE  FALSE
  <2>1. CASE Stop(p)
    BY <2>1 DEF Stop, Reads
  <2>2. CASE MeatgrinderStep
    <3>1. \E kind : Reads("meatgrinder", kind)
      BY <2>2 DEF MeatgrinderStep, DropEmpty, Rewrite, Complain, HandleNormal, HandleMe,
                  HandleQuit, HandleChannelChange, HandleChannelLeave, HandleOnly,
                  HandleCommands, HandleUserCommand, HandleEraseCommand, Define, Erase,
                  DisplayCommands, Grinds, Handles
    <3> QED BY <3>1 DEF Reads
  <2>3. OtherStep(p) => FALSE
    BY OthersPassOn
  <2> QED BY <1>1, <2>1, <2>2, <2>3, StepsAre
<1>2. ~WindowStep
  BY DEF WindowStep, display, focus, leave, Takes
<1>3. ~UserStep
  BY DEF UserStep, send_input, Quit, request_edict_send, SendLine, Connect, ChooseMode, Act
<1> QED BY <1>1, <1>2, <1>3 DEF Next

\* Text that is typed is sent in a channel.
LEMMA UserSends ==
  ASSUME TypeInv, NEW text, send_input(text) \/ request_edict_send(text)
  PROVE  /\ text.cmd \in Words /\ text.args \in Seq(Channels)
         /\ \E chan \in Channels : SendLine(text, chan)
         /\ UNCHANGED <<tabs, events>>
<1>1. /\ typed \in Seq(TypedLine) /\ toReader \in Seq(Channels \ {Blank})
      /\ channel \in Channels /\ tabs \subseteq Channels /\ Transfers \in Channels
  BY DEF TypeInv, HistoryType, UiType, Channels
<1>2. text.cmd \in Words /\ text.args \in Seq(Channels)
  BY <1>1, MayTypeText, ConversationAssumption DEF send_input, request_edict_send
<1>3. CASE send_input(text)
  <2>1. channel' \in Channels
    <3>1. toReader # << >> => Head(toReader) \in Channels \ {Blank}
      BY <1>1
    <3> QED BY <1>1, <1>3, <3>1 DEF send_input
  <2> QED BY <1>2, <1>3, <2>1 DEF send_input, qtVars
<1>4. CASE request_edict_send(text)
  BY <1>1, <1>2, <1>4 DEF request_edict_send, qtVars
<1> QED BY <1>3, <1>4

LEMMA TypedOnly ==
  ASSUME TypeInv, [Next]_vars, \A text : ~send_input(text) /\ ~request_edict_send(text)
  PROVE  typed' = typed
<1>1. ASSUME NEW p \in Plugins, PluginStep(p)
      PROVE  typed' = typed
  BY <1>1 DEF PluginStep, Stop, MeatgrinderStep, AntennaStep, MasseuseStep, LoggerStep,
              ConsoleStep, Emit, history
<1>2. CASE UNCHANGED vars
  BY <1>2 DEF vars, history
<1>3. CASE WindowStep
  BY <1>3 DEF WindowStep, history
<1>4. CASE UserStep
  BY <1>4 DEF UserStep, Quit, Connect, ChooseMode, Restart, history
<1> QED BY <1>1, <1>2, <1>3, <1>4 DEF Next

\* Who is careful has been careful.
LEMMA CarefulBefore ==
  ASSUME TypeInv, [Next]_vars, Careful(typed')
  PROVE  Careful(typed)
<1>1. CASE \A text : ~send_input(text) /\ ~request_edict_send(text)
  BY <1>1, TypedOnly
<1>2. ASSUME NEW text, send_input(text) \/ request_edict_send(text)
      PROVE  Careful(typed)
  <2>1. PICK chan \in Channels : SendLine(text, chan)
    BY <1>2, UserSends
  <2> DEFINE x == [cmd |-> text.cmd, args |-> text.args, channel |-> chan, session |-> session]
  <2>2. typed \in Seq(TypedLine) /\ session \in Nat /\ x \in TypedLine
    BY <1>2, UserSends DEF TypeInv, HistoryType, TypedLine
  <2>3. typed' = Append(typed, x)
    BY <2>1 DEF SendLine
  <2> HIDE DEF x
  <2>4. /\ Len(typed') = Len(typed) + 1 /\ Len(typed) \in Nat
        /\ \A n \in 1..Len(typed) : n \in 1..Len(typed') /\ typed'[n] = typed[n]
    BY <2>2, <2>3, TypedGrows
  <2> QED BY <2>4 DEF Careful, Mentioned
<1> QED BY <1>1, <1>2

LEMMA NextCrash ==
  ASSUME TypeInv, TypeInv', LogInv, CrashInv, [Next]_vars
  PROVE  CrashInv'
<1>1. CASE Restart
  BY <1>1, RestartCrash
<1>2. CASE UNCHANGED vars
  BY <1>2 DEF vars, grinderVars, qtVars, history, CrashInv, Careful, Excused, Sane,
              AllFaithful, WithArguments, Books, NoBlankTab, AllNamed, Clean, Qt
<1>3. CASE ~Restart /\ ~UNCHANGED vars
  <2>1. IsABag(macros')
    BY BagStays DEF CrashInv
  <2> SUFFICES ASSUME Careful(typed')
               PROVE  IF phase' = "crashed" THEN Excused(typed, session, ui)' ELSE Sane'
    BY <2>1 DEF CrashInv
  <2>2. /\ Careful(typed) /\ phase # "crashed" /\ IsABag(macros) /\ Sane
    <3>1. phase # "crashed"
      BY <1>3, CrashedStays
    <3> QED BY <3>1, CarefulBefore DEF CrashInv
  <2>3. Sound
    <3>1. ASSUME NEW p \in Plugins, PluginStep(p)
          PROVE  Sound
      <4>1. CASE Stop(p)
        BY <2>2, <4>1, StopSound
      <4>2. CASE MeatgrinderStep
        BY <2>2, <4>2, GrinderSound
      <4>3. CASE OtherStep(p)
        BY <2>2, <4>3, OthersSound
      <4> QED BY <3>1, <4>1, <4>2, <4>3, StepsAre
    <3>2. CASE Qt /\ WindowStep
      BY <2>2, <3>2, WindowSound
    <3>3. ASSUME NEW text, send_input(text) \/ request_edict_send(text)
          PROVE  Sound
      BY <2>2, <3>3, UserSends, SendSound
    <3>4. CASE UserStep
      BY <1>3, <2>2, <3>3, <3>4, QuitSound, ConnectSound, ChooseSound DEF UserStep
    <3> QED BY <1>3, <3>1, <3>2, <3>4 DEF Next
  <2> QED BY <2>3 DEF Sound
<1> QED BY <1>1, <1>2, <1>3

(* The program does not crash while the user defines macros before he      *)
(* erases them, names one in these commands, and gives channels a name,    *)
(* over any number of lines and sessions.  (meatgrinder.cpp: the handlers  *)
(* of /macro and /macro_erase and the replacer; in the window, display of  *)
(* lirch_qt_interface.cpp.)                                                *)
THEOREM CrashesAreKnown == Spec => []OnlyKnownCrashes
<1>1. ASSUME TypeInv, CrashInv
      PROVE  OnlyKnownCrashes
  <2> SUFFICES ASSUME phase = "crashed",
                      ~Mentioned(typed, {"/macro", "/macro_erase", "/channel"})
               PROVE  \E i \in 1..Len(typed) :
                        /\ typed[i].session = session
                        /\ \/ /\ typed[i].cmd \in {"/macro", "/macro_erase"}
                              /\ typed[i].args = << >>
                           \/ /\ typed[i].cmd = "/macro_erase" /\ typed[i].args # << >>
                              /\ Erasures(i, typed[i].args[1]) > Definitions(i, typed[i].args[1])
                           \/ ui # "console" /\ Bare(typed[i], "/channel")
    BY DEF OnlyKnownCrashes
  <2>1. Excused(typed, session, ui)
    BY <1>1 DEF CrashInv, Careful
  <2>2. PICK n \in 1..Len(typed) :
          /\ typed[n].session = session
          /\ \/ typed[n].cmd \in MacroWords /\ typed[n].args = << >>
             \/ /\ typed[n].cmd = "/macro_erase" /\ typed[n].args # << >>
                /\ Cardinality(Defined(typed, session, n, typed[n].args[1]))
                     < Cardinality(Erased(typed, session, n, typed[n].args[1]))
             \/ ui # "console" /\ Bare(typed[n], "/channel")
    BY <2>1 DEF Excused
  <2>3. ASSUME NEW c
        PROVE  /\ Definitions(n, c) = Cardinality(Defined(typed, session, n, c))
               /\ Erasures(n, c) = Cardinality(Erased(typed, session, n, c))
    BY DEF Definitions, Erasures, Defined, Erased
  <2>4. \A a, b : a < b => b > a
    OBVIOUS
  <2> QED BY <2>2, <2>3, <2>4 DEF MacroWords
<1>2. Init => TypeInv /\ LogInv /\ CrashInv
  BY InitTyped, InitLogged, InitCrash
<1>3. TypeInv /\ LogInv /\ CrashInv /\ [Next]_vars => TypeInv' /\ LogInv' /\ CrashInv'
  BY NextTyped, NextLogged, NextCrash
<1> QED BY <1>1, <1>2, <1>3, PTL DEF Spec

===============================================================================
