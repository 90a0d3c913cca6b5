-------------------------------- MODULE MCHooks --------------------------------
(* Small instances of Hooks: a directory d with a file f and an empty          *)
(* directory e in the root; a directory that was removed may be made again.    *)
EXTENDS Hooks

MCTree == [o \in Object |-> CASE o = "root" -> <<>> [] o = "d" -> <<"d">>
                              [] o = "e" -> <<"e">> [] o = "f" -> <<"d", "f">>
                              [] OTHER -> NULL]

MCToken == {Slash, Here, Up, Deleted, "d", "e", "f"}

\* A character after another but the slash would make another component.
WellFormed(name) ==
  \A i \in 1 .. Len(name) - 1 : name[i] = Slash \/ name[i + 1] = Slash

\* Every spelling of up to three tokens, and some longer ones.
AllNames ==
  {name \in UNION {[1 .. n -> {Slash, Up, "d", "f"}] : n \in 0 .. 3} : WellFormed(name)}
    \cup {<<Slash, "d", Slash, "f">>, <<"d", Slash, "f", Slash>>,
          <<"d", Slash, Slash, "f">>, <<Up, Slash, Up, Slash, "d">>}

FewNames == {<<"f">>, <<Slash, "d">>}
OneNewName == {<<"e">>}

Rule(path, type) == [path |-> path, type |-> type]
D == <<Slash, "d">>
F == <<Slash, "d", Slash, "f">>

FileRules == {Rule(F, "del"), Rule(F, "rename")}
DirRules == {Rule(D, "mkdir"), Rule(D, "hide")}
AllRules == { FileRules \cup DirRules \cup {Rule(<<Slash>>, "mkdir"), Rule(<<"d">>, "hide")} }
FewRules == { {}, FileRules \cup DirRules }

ASSUME RulesAsWritten

\* What an earlier call may have left in the buffer.
MCLeftovers == { <<>>, F }
Clean == { <<>> }

Symmetric == Permutations(Threads)
=============================================================================
