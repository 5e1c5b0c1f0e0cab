----------------------------- MODULE MCConversation -----------------------------
(* A few lines of each kind, for the console and for the Qt window.        *)
EXTENDS Conversation

CONSTANTS default, blue, transfers

NoName == ""
\* Every word may name a channel.
Words == {blue, "hello", "waves", "/me", "/slap", "macros", "replacements"}

Plain == Line("", <<"hello">>)
ChangeChannel == Line("/channel", <<blue>>)
Me == Line("/me", <<"waves">>)
\* Together with the built-in macro for /slap it makes a loop.
DefineMe == Line("/macro", <<"/me", "/me", "/slap">>)
EraseMe == Line("/macro_erase", <<"/me">>)

CommonLines == {Plain, ChangeChannel, Me, DefineMe, EraseMe}

RareLines ==
  {Line("", << >>), Line("/nonsense", << >>), Line("/quit", << >>),
   Line("/channel", << >>), Line("/only", <<blue>>), Line("/macros", << >>),
   Line("/me", << >>), Line("/macro", << >>), Line("/macro", <<"/me">>),
   Line("/macro_erase", << >>), Line("/macro_erase", <<"/me", "/me">>),
   Line("/replace", <<"hello", "/me">>)}

TypedAtConsole ==
  <<CommonLines \cup RareLines, {ChangeChannel, Me, EraseMe}, {Plain, EraseMe}>>

TypedInWindow ==
  <<{Plain, ChangeChannel, Line("/channel", << >>)},
    {Plain, Line("/leave", <<blue>>), Line("/leave", << >>)}>>

Acts == [console |-> 3, qt |-> 2, qtFirst |-> 1]
Sessions == [console |-> 1, qt |-> 2, qtFirst |-> 1]
===============================================================================
