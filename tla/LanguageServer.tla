---------------------------- MODULE LanguageServer ----------------------------
(***************************************************************************)
(* ezrac lsp (crates/ezrac-cli/src/lsp_server.rs) between an editor and    *)
(* the files of one project: the editor opens, edits, saves and closes     *)
(* documents, other programs write files, the server answers messages one  *)
(* by one and publishes diagnostics, and the editor shows what it was last *)
(* told about each file.  Both pipes keep the order of their messages.     *)
(*                                                                         *)
(* A file has a manifest (Ezra.toml), or is one.  What a file may hold:    *)
(*   clean    it has its imports, declares what others use of it, and is   *)
(*            right if they do                                             *)
(*   alone    as clean, without imports                                    *)
(*   bare     as alone, without declarations for others                    *)
(*   wrong    as clean, with an error of its own                           *)
(*   broken   it does not parse                                            *)
(*   missing  the file does not exist                                      *)
(* Whether a document has diagnostics is all that is kept of them.  A      *)
(* document's URI is its file's; requests that only read are left out.     *)
(***************************************************************************)
EXTENDS Integers, Sequences, FiniteSets, SequencesExt

CONSTANTS
  Sources, Layouts, Assemblies, Manifests,   \* the files, by what they hold
  ManifestOf,   \* the manifest that a document's project has, if any
  Input,        \* the source file that a source's project is compiled from
  Imports,      \* what a source with imports imports, in order
  LayoutsOf,    \* the layout files of a source's or a layout's project
  Texts,        \* what each file may come to hold
  Disks,        \* what the files may hold to begin with
  NoVersion,    \* the version of what is not an open document
  MaxVersion,   \* bound: the edits of a document
  MaxEvents     \* bound: what the editor and other programs do

Documents == Sources \cup Layouts \cup Assemblies   \* what is ever opened
Files     == Documents \cup Manifests
Contents  == {"clean", "alone", "bare", "wrong", "broken", "missing"}
Versions  == 1..MaxVersion
Closed    == [text |-> "clean", version |-> NoVersion]

ASSUME ProjectAssumption ==
  /\ IsFiniteSet(Files)
  /\ Sources \cap Layouts = {} /\ Assemblies \cap (Sources \cup Layouts) = {}
  /\ Manifests \cap Documents = {}
  /\ ManifestOf \in [Documents -> SUBSET Manifests]
  /\ Input \in [Sources -> Sources]
  /\ Imports \in [Sources -> Seq(Sources)] /\ \A f \in Sources : IsInjective(Imports[f])
  /\ LayoutsOf \in [Sources \cup Layouts -> SUBSET Layouts]
  /\ Texts \in [Files -> SUBSET Contents]
  /\ Disks \subseteq [Files -> Contents]
  /\ NoVersion \notin Versions
  /\ MaxVersion \in Nat \ {0} /\ MaxEvents \in Nat

VARIABLES
  disk,         \* the files
  unwatched,    \* files that changed and that the editor has not told of
  buffers,      \* the editor's documents
  version,      \* the last version the editor gave to a document
  events,       \* how often the editor and others did something
  announced,    \* nothing was done since the last message that makes the
                \* server publish (history)
  toServer, toEditor,
  running, documents, published,     \* the server
  shown         \* what the editor shows

editorVars == <<disk, unwatched, buffers, version, events, announced>>
serverVars == <<running, documents, published>>
vars       == <<editorVars, toServer, toEditor, serverVars, shown>>

IsOpen(docs, f) == docs[f] # Closed
OpenFiles(docs) == {f \in Files : IsOpen(docs, f)}

-----------------------------------------------------------------------------
(***************************************************************************)
(* The check of one root (check_diagnostics_with_sdk_and_overrides) sees   *)
(* the text of every file.  Left out: errors that only a collision of      *)
(* imported names, an access to a private one or a cfg condition makes.    *)
(***************************************************************************)
ImportsIn(text, f) == IF text[f] \in {"clean", "wrong"} THEN Imports[f] ELSE <<>>

\* One file more of the walk through all imports of root, depth first, that
\* ends at the first that cannot be read or parsed (collect_private_imports).
Walks == [todo : Seq(Sources), seen : SUBSET Sources, failed : SUBSET Sources]

LoadNext(text, root) == [walk \in Walks |->
  LET f == Head(walk.todo)
  IN  CASE walk.todo = <<>> \/ walk.failed # {} -> walk
        [] text[f] = "missing" -> [walk EXCEPT !.failed = {root}]
        [] f \in walk.seen     -> [walk EXCEPT !.todo = Tail(@)]
        [] text[f] = "broken"  -> [walk EXCEPT !.failed = {f}]
        [] OTHER -> [walk EXCEPT !.todo = ImportsIn(text, f) \o Tail(@),
                                 !.seen = @ \cup {f}]]

Loads(text, root) ==
  LET n == Cardinality(Sources) * (Cardinality(Sources) + 1)   \* files to walk to
      walk[i \in 0..n] ==
        IF i = 0 THEN [todo |-> ImportsIn(text, root), seen |-> {}, failed |-> {}]
                 ELSE LoadNext(text, root)[walk[i - 1]]
  IN  walk[n]

\* resolve_program_imports
Cyclic(text, units) == \E f \in units : f \in Loads(text, f).seen

\* collect_reference_diagnostics
Wrong(text, f) ==
  text[f] = "wrong" \/ \E h \in ToSet(ImportsIn(text, f)) : text[h] = "bare"

CompileErrors(text, root) ==
  LET loads == Loads(text, root)
      units == {root} \cup loads.seen
  IN  Sources \cap
        CASE text[root] = "broken" -> {root}
          [] loads.failed # {}     -> loads.failed
          [] Cyclic(text, units)   -> {root}
          [] OTHER                 -> {f \in units : Wrong(text, f)}

-----------------------------------------------------------------------------
(***************************************************************************)
(* publish_workspace_diagnostics.  Open documents stand for their files    *)
(* (source_overrides); each open source has its project's input checked,   *)
(* each project its layouts, each open assembly file itself.  A document   *)
(* whose manifest is broken has that error alone.                          *)
(***************************************************************************)
Source(docs, f) == IF IsOpen(docs, f) THEN docs[f].text ELSE disk[f]
Current(docs)   == [f \in Files |-> Source(docs, f)]

Unconfigured(text, f) == \E m \in ManifestOf[f] : text[m] = "broken"

Configured(docs) == {f \in OpenFiles(docs) : ~Unconfigured(Current(docs), f)}

Roots(docs) == {Input[f] : f \in Sources \cap Configured(docs)}

\* A root that cannot be read, or has no settings, is itself the error.
Compiled(docs) ==
  {r \in Roots(docs) : Source(docs, r) # "missing" /\ ~Unconfigured(Current(docs), r)}

CheckedLayouts(docs) ==
  UNION {LayoutsOf[f] : f \in Compiled(docs) \cup (Layouts \cap Configured(docs))}

Diagnosed(docs) ==
  (OpenFiles(docs) \ Configured(docs)) \cup (Roots(docs) \ Compiled(docs)) \cup
  (UNION {CompileErrors(Current(docs), r) : r \in Compiled(docs)}) \cup
  {f \in CheckedLayouts(docs) \cup (Assemblies \cap OpenFiles(docs)) :
     Source(docs, f) \in {"broken", "missing"}}

Clearing(f) ==
  [file |-> f, text |-> Closed.text, version |-> Closed.version, faulty |-> FALSE]

Publication(docs, f) ==
  [file |-> f, text |-> docs[f].text, version |-> docs[f].version,
   faulty |-> f \in Diagnosed(docs)]

Publications(docs) == OpenFiles(docs) \cup Diagnosed(docs)

\* Mutant: what was published before and is gone is not taken back.
WithdrawnNothing(docs) == {}

Withdrawn(docs) == published \ Publications(docs)

\* Mutant: only the documents that are open are remembered.
PublishForgetful(docs) ==
  /\ toEditor' = toEditor
       \o SetToSeq({Clearing(f) : f \in Withdrawn(docs)})
       \o SetToSeq({Publication(docs, f) : f \in Publications(docs)})
  /\ published' = OpenFiles(docs)

Publish(docs) ==
  /\ toEditor' = toEditor
       \o SetToSeq({Clearing(f) : f \in Withdrawn(docs)})
       \o SetToSeq({Publication(docs, f) : f \in Publications(docs)})
  /\ published' = Publications(docs)

KeepQuiet == UNCHANGED <<toEditor, published>>

-----------------------------------------------------------------------------
(***************************************************************************)
(* handle_message: the handlers of notifications.                          *)
(***************************************************************************)
DidOpen(m) ==
  /\ m.method = "open"
  /\ documents' = [documents EXCEPT ![m.file] = [text |-> m.text, version |-> m.version]]
  /\ KeepQuiet /\ UNCHANGED running

\* Mutant: the version is taken over and the text is not.
DidChangeVersion(m) ==
  /\ m.method = "change"
  /\ documents' = IF IsOpen(documents, m.file)
                  THEN [documents EXCEPT ![m.file].version = m.version]
                  ELSE documents
  /\ KeepQuiet /\ UNCHANGED running

DidChange(m) ==
  /\ m.method = "change"
  /\ documents' = IF IsOpen(documents, m.file)
                  THEN [documents EXCEPT ![m.file] = [text |-> m.text, version |-> m.version]]
                  ELSE documents
  /\ KeepQuiet /\ UNCHANGED running

DidSave(m) ==
  /\ m.method = "save"
  /\ IF IsOpen(documents, m.file) THEN Publish(documents) ELSE KeepQuiet
  /\ UNCHANGED <<running, documents>>

DidClose(m) ==
  /\ m.method = "close"
  /\ documents' = [documents EXCEPT ![m.file] = Closed]
  /\ published' = published \ {m.file}
  /\ toEditor' = IF m.file \in published THEN Append(toEditor, Clearing(m.file)) ELSE toEditor
  /\ UNCHANGED running

\* Mutant: a file event counts for nothing while one document is open.
DidChangeWatchedOpen(m) ==
  /\ m.method = "watched"
  /\ IF Cardinality(OpenFiles(documents)) > 1 THEN Publish(documents) ELSE KeepQuiet
  /\ UNCHANGED <<running, documents>>

DidChangeWatchedFiles(m) ==
  /\ m.method = "watched"
  /\ Publish(documents)
  /\ UNCHANGED <<running, documents>>

\* didOpen of a document that is no file: the error ends the server.
DidOpenForeign(m) ==
  /\ m.method = "foreign"
  /\ running' = FALSE
  /\ KeepQuiet /\ UNCHANGED documents

Shutdown(m) ==
  /\ m.method = "shutdown"
  /\ running' = FALSE
  /\ KeepQuiet /\ UNCHANGED documents

HandleMessage ==
  /\ running
  /\ toServer # <<>>
  /\ LET m == Head(toServer)
     IN  \/ DidOpen(m) \/ DidChange(m) \/ DidSave(m) \/ DidClose(m)
         \/ DidChangeWatchedFiles(m) \/ DidOpenForeign(m) \/ Shutdown(m)
  /\ toServer' = Tail(toServer)
  /\ UNCHANGED <<editorVars, shown>>

-----------------------------------------------------------------------------
(***************************************************************************)
(* The editor and other programs.                                          *)
(***************************************************************************)
Send(m)   == toServer' = Append(toServer, m)
Do(tells) == /\ events < MaxEvents
             /\ events' = events + 1
             /\ announced' = tells
             /\ UNCHANGED <<toEditor, serverVars, shown>>

Named(method, f, text, v) == [method |-> method, file |-> f, text |-> text, version |-> v]

EditorOpen(f) ==
  /\ ~IsOpen(buffers, f) /\ version[f] < MaxVersion
  /\ disk[f] # "missing"
  /\ buffers' = [buffers EXCEPT ![f] = [text |-> disk[f], version |-> version[f] + 1]]
  /\ version' = [version EXCEPT ![f] = @ + 1]
  /\ Send(Named("open", f, disk[f], version[f] + 1))
  /\ UNCHANGED <<disk, unwatched>>
  /\ Do(FALSE)

EditorChange(f, text) ==
  /\ IsOpen(buffers, f) /\ version[f] < MaxVersion
  /\ text \notin {buffers[f].text, "missing"}
  /\ buffers' = [buffers EXCEPT ![f] = [text |-> text, version |-> version[f] + 1]]
  /\ version' = [version EXCEPT ![f] = @ + 1]
  /\ Send(Named("change", f, text, version[f] + 1))
  /\ UNCHANGED <<disk, unwatched>>
  /\ Do(FALSE)

EditorSave(f) ==
  /\ IsOpen(buffers, f)
  /\ disk' = [disk EXCEPT ![f] = buffers[f].text]
  /\ Send(Named("save", f, buffers[f].text, version[f]))
  /\ UNCHANGED <<unwatched, buffers, version>>
  /\ Do(unwatched = {})

EditorClose(f) ==
  /\ IsOpen(buffers, f)
  /\ buffers' = [buffers EXCEPT ![f] = Closed]
  /\ Send(Named("close", f, buffers[f].text, version[f]))
  /\ UNCHANGED <<disk, unwatched, version>>
  /\ Do(FALSE)

WriteFile(f, text) ==
  /\ text # disk[f]
  /\ disk' = [disk EXCEPT ![f] = text]
  /\ unwatched' = unwatched \cup {f}
  /\ UNCHANGED <<buffers, version, toServer>>
  /\ Do(FALSE)

EditorWatched ==
  /\ unwatched # {}
  /\ unwatched' = {}
  /\ Send([method |-> "watched"])
  /\ UNCHANGED <<disk, buffers, version>>
  /\ Do(TRUE)

EditorOpenForeign ==
  /\ Send([method |-> "foreign"])
  /\ UNCHANGED <<disk, unwatched, buffers, version>>
  /\ Do(FALSE)

\* The last thing the editor does.
EditorShutdown ==
  /\ events < MaxEvents
  /\ events' = MaxEvents
  /\ announced' = FALSE
  /\ Send([method |-> "shutdown"])
  /\ UNCHANGED <<disk, unwatched, buffers, version, toEditor, serverVars, shown>>

ShowDiagnostics ==
  /\ toEditor # <<>>
  /\ shown' = [shown EXCEPT ![Head(toEditor).file] = Head(toEditor)]
  /\ toEditor' = Tail(toEditor)
  /\ UNCHANGED <<editorVars, toServer, serverVars>>

-----------------------------------------------------------------------------
Init ==
  /\ disk \in Disks
  /\ unwatched = {}
  /\ buffers = [f \in Files |-> Closed]
  /\ version = [f \in Files |-> 0]
  /\ events = 0
  /\ announced = FALSE
  /\ toServer = <<>> /\ toEditor = <<>>
  /\ running = TRUE
  /\ documents = [f \in Files |-> Closed]
  /\ published = {}
  /\ shown = [f \in Files |-> Clearing(f)]

EditorNext ==
  \/ \E f \in Documents : EditorOpen(f) \/ EditorSave(f) \/ EditorClose(f)
  \/ \E f \in Documents : \E text \in Texts[f] : EditorChange(f, text)
  \/ \E f \in Files : \E text \in Texts[f] : WriteFile(f, text)
  \/ EditorWatched \/ EditorOpenForeign \/ EditorShutdown

Next == EditorNext \/ HandleMessage \/ ShowDiagnostics

Spec == Init /\ [][Next]_vars /\ WF_vars(HandleMessage) /\ WF_vars(ShowDiagnostics)

-----------------------------------------------------------------------------

\* What the editor will have been told of f once it has read everything.
LastWord(f) ==
  LET about == {i \in DOMAIN toEditor : toEditor[i].file = f}
  IN  IF about = {} THEN shown[f] ELSE toEditor[Max(about)]

(***************************************************************************)
(* No orphans: a file the editor is left to show as faulty is one that     *)
(* the server remembers (published_diagnostic_uris) and so can take back,  *)
(* open or not, whatever was closed, reopened or dropped in between.       *)
(***************************************************************************)
NoOrphanDiagnostics == \A f \in Files : LastWord(f).faulty => f \in published

(***************************************************************************)
(* A version is never stamped on the diagnostics of another text: what the *)
(* editor shows for the current version of a document was computed from    *)
(* the text that the document has now, whatever edits, closes and reopens  *)
(* are on their way (did_change, publish_workspace_diagnostics).           *)
(***************************************************************************)
StampedDiagnosticsAreCurrent ==
  \A f \in Files :
    IsOpen(buffers, f) /\ shown[f].version = buffers[f].version
      => shown[f].text = buffers[f].text

(***************************************************************************)
(* "Import, project, and layout changes republish workspace diagnostics"   *)
(* (docs/editor-syntax.md): once the pipes are empty, and nothing has been *)
(* done since the last save or file event, the editor shows exactly what   *)
(* the project has wrong, in files it has open and in files it has not.    *)
(***************************************************************************)
ViewIsTrue == {f \in Files : shown[f].faulty} = Diagnosed(buffers)

SettledViewIsTrue ==
  running /\ announced /\ toServer = <<>> /\ toEditor = <<>> => ViewIsTrue

(***************************************************************************)
(* And it gets there: after the last save or file event the view becomes   *)
(* true for good, unless the server has ended.                             *)
(***************************************************************************)
ViewBecomesTrue == <>[]announced => <>[](running => ViewIsTrue)
=============================================================================
