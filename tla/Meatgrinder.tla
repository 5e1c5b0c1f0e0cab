------------------------------ MODULE Meatgrinder ------------------------------
(***************************************************************************)
(* What the meatgrinder knows of a typed line (plugins/meatgrinder): its   *)
(* first word decides which macros rewrite it and which handler gets it.   *)
(* A line is the word with the slash, "" for plain text, and the list of   *)
(* what parse() finds behind it.  The pattern of a macro fits every line   *)
(* that begins with its command, and its replacement is another word,      *)
(* perhaps with more behind it: only that changes the prefix of a line.    *)
(***************************************************************************)
EXTENDS Sequences, Bags

Line(c, a) == [cmd |-> c, args |-> a]

Macro(c, p, t, a) == [command |-> c, pattern |-> p, to |-> t, args |-> a]

\* Those the meatgrinder registers itself.
BuiltIn == SetToBag({
  Macro("/slap", "/slap", "/me", << >>),
  Macro("/replace", "/replace", "/macro", <<"">>),
  Macro("/macros", "/macros", "/commands", <<"macros">>),
  Macro("/replacements", "/replacements", "/commands", <<"replacements">>)})

Handlers == {"", "/say", "/me", "/q", "/quit", "/channel", "/commands",
             "/leave", "/macro", "/macro_erase"}

\* Mutant: macros for words that have a handler are not taken.
WithNew(defs, m) ==
  IF m.command \in Handlers THEN defs ELSE defs (+) SetToBag({m})

\* text_replacements is an unordered_multimap.
With(defs, m) == defs (+) SetToBag({m})

Macros(defs, command) == {m \in BagToSet(defs) : m.command = command}

\* Those that a /macro_erase with a pattern, and perhaps a replacement, means.
Matching(defs, m) ==
  {k \in Macros(defs, m.command) :
     k.pattern = m.pattern /\ m.to \in {"", k.to}}

Without(defs, m) == defs (-) SetToBag({m})

\* What run_replacers may turn a line into: the first macro that fits, in
\* no particular order, changes the word, and the others do not fit then.
Rewritten(defs, line) ==
  {[line EXCEPT !.cmd = m.to, !.args = m.args \o @] :
     m \in {m \in Macros(defs, line.cmd) : m.to # line.cmd}}

===============================================================================
