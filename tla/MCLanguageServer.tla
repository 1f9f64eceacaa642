-------------------------- MODULE MCLanguageServer --------------------------
(***************************************************************************)
(* A project with a manifest, a main file, a module that main imports, and *)
(* a layout, beside an assembly file.  Main uses what the module declares, *)
(* which can import main again, declare nothing, break and go away.        *)
(***************************************************************************)
EXTENDS LanguageServer

MCSources    == {"main", "lib"}
MCLayouts    == {"layout"}
MCAssemblies == {"asm"}
MCManifests  == {"toml"}
MCManifestOf == [f \in Documents |-> {"toml"}]
MCInput      == [f \in MCSources |-> "main"]
MCImports    == [main |-> <<"lib">>, lib |-> <<"main">>]
MCLayoutsOf  == [f \in MCSources \cup MCLayouts |-> {"layout"}]
MCTexts      == [main   |-> {"clean", "wrong", "broken"},
                 lib    |-> {"alone", "bare", "clean", "broken", "missing"},
                 layout |-> {"clean", "broken"},
                 asm    |-> {"clean", "broken"},
                 toml   |-> {"clean", "broken"}]
MCDisks      == {[main |-> "clean", lib |-> "bare", layout |-> "broken",
                  asm |-> "clean", toml |-> "clean"]}
=============================================================================
