-------------------------------- MODULE Files --------------------------------
(***************************************************************************)
(* The file manager of one server: the page with its list, its selection    *)
(* and its editor (frontend servers/[id]/files/page.tsx), the panel that    *)
(* passes its requests on (panel/src/api/routes/files.ts), and the files on *)
(* the node (node-agent/internal/server/files.go).                          *)
(*                                                                          *)
(* Requests that change files are one step, but for those whose answer the  *)
(* page may have moved on from: loading a file into the editor, saving it,  *)
(* and deleting several.  There is a directory Top with one below it, Sub.  *)
(***************************************************************************)
EXTENDS Naturals, FiniteSets

CONSTANTS
  Name,      \* names of files
  SubName,   \* one of them: in Top, the directory Sub
  ZipName,   \* one of them: what a compressed entry is called
  NoPath,
  ErrorText, \* "# Error loading file", the editor's text when that failed
  MaxEvents  \* bound: things the user begins, and requests that fail

VARIABLES
  disk,      \* the node: what is at each path
  dir,       \* page: the directory shown
  shown,     \* page: the names in its list, as loaded last
  selected,  \* page: names ticked, whatever directory they were ticked in
  asked,     \* page: names the dialog asks to delete
  batch,     \* page: names to untick when all its deletions are answered
  deletes,   \* the paths whose DELETE is on its way
  editing,   \* page: the path the editor has in its title
  content,   \* page: the editor's text: where it was loaded from, was it edited?
  loading,   \* page: does it show "Loading..." instead?
  loads,     \* the paths whose GET is on its way
  mounted,   \* page: what Ctrl+S saves: path and text when the editor appeared
  saving,    \* page: is its button disabled?
  saves,     \* the PUTs on their way
  chosen,    \* history: paths that were ticked, or picked in the menu of a row
  moved,     \* history: was the directory left with names ticked?
  crossed,   \* history: was the file opened while another was being loaded?
  events

listing == <<dir, shown, selected, asked, batch, deletes, chosen, moved>>
editor == <<editing, content, loading, loads, mounted, saving, saves, crossed>>
vars == <<disk, listing, editor, events>>

Dir == {"Top", "Sub"}
Path == Dir \X Name
Format == {"text", "zip", "gzip", "tar", "bzip2"}
Origin == Path \cup {NoPath, ErrorText}
Text == [of : Origin, edited : BOOLEAN]
Put == [path : Path, of : Origin, edited : BOOLEAN, hasty : BOOLEAN]

TypeOK ==
  /\ disk \in [Path -> Format \cup {"none", "dir"}]
  /\ dir \in Dir
  /\ shown \subseteq Name /\ selected \subseteq Name
  /\ asked \subseteq Name /\ batch \subseteq Name
  /\ deletes \subseteq Path
  /\ editing \in Path \cup {NoPath}
  /\ content \in Text
  /\ loading \in BOOLEAN
  /\ loads \subseteq Path
  /\ mounted \in [path : Path \cup {NoPath}, of : Origin, edited : BOOLEAN]
  /\ saving \in BOOLEAN
  /\ saves \subseteq Put
  /\ chosen \subseteq Path /\ moved \in BOOLEAN /\ crossed \in BOOLEAN
  /\ events \in 0..MaxEvents

NoText == [of |-> NoPath, edited |-> FALSE]

Init ==
  /\ disk = [p \in Path |-> IF p = <<"Top", SubName>> THEN "dir" ELSE "text"]
  /\ dir = "Top"
  /\ shown = {} /\ selected = {} /\ asked = {} /\ batch = {} /\ deletes = {}
  /\ editing = NoPath /\ content = NoText
  /\ loading = FALSE /\ loads = {}
  /\ mounted = [path |-> NoPath, of |-> NoPath, edited |-> FALSE]
  /\ saving = FALSE /\ saves = {}
  /\ chosen = {} /\ moved = FALSE /\ crossed = FALSE
  /\ events = 0

Event == events < MaxEvents /\ events' = events + 1

Listing == editing = NoPath
Here(n) == <<dir, n>>
Sub(p) == IF p = <<"Top", SubName>> THEN {"Sub"} \X Name ELSE {}
IsFile(p) == disk[p] \in Format

\* Writing a file makes the directory it is in, and fails where one stands.
Written(p, f) ==
  [disk EXCEPT ![p] = f, ![<<"Top", SubName>>] =
     IF p[1] = "Sub" THEN "dir" ELSE IF p = <<"Top", SubName>> THEN f ELSE @]
Writable(p) ==
  disk[p] # "dir" /\ (p[1] = "Sub" => disk[<<"Top", SubName>>] \in {"none", "dir"})

-----------------------------------------------------------------------------
(* The list.                                                               *)

handleFileList ==
  /\ shown # {n \in Name : disk[Here(n)] # "none"}
  /\ shown' = {n \in Name : disk[Here(n)] # "none"}
  /\ UNCHANGED <<disk, dir, selected, asked, batch, deletes, chosen, moved, editor, events>>

\* The selection stays.
Navigate ==
  /\ Listing /\ asked = {} /\ Event
  /\ dir' = IF dir = "Top" THEN "Sub" ELSE "Top"
  /\ dir = "Top" => SubName \in shown
  /\ shown' = {}
  /\ moved' = (moved \/ selected # {})
  /\ UNCHANGED <<disk, selected, asked, batch, deletes, chosen, editor>>

\* "All" and the cross do this to several names at once.
toggleSelect(n) ==
  /\ Listing /\ asked = {} /\ n \in shown /\ Event
  /\ selected' = IF n \in selected THEN selected \ {n} ELSE selected \cup {n}
  /\ chosen' = IF n \in selected THEN chosen \ (Dir \X {n}) ELSE chosen \cup {Here(n)}
  /\ moved' = (moved /\ selected' # {})
  /\ UNCHANGED <<disk, dir, shown, asked, batch, deletes, editor>>

\* Names become paths by the directory that is shown when they are deleted.
handleDelete(n) ==
  /\ Listing /\ asked = {} /\ n \in shown /\ Event
  /\ asked' = {n} /\ chosen' = chosen \cup {Here(n)}
  /\ UNCHANGED <<disk, dir, shown, selected, batch, deletes, moved, editor>>

handleDeleteSelected ==
  /\ Listing /\ asked = {} /\ selected # {}
  /\ asked' = selected
  /\ UNCHANGED <<disk, dir, shown, selected, batch, deletes, chosen, moved, editor, events>>

onCancel ==
  /\ asked # {} /\ asked' = {}
  /\ moved' = (moved /\ selected # {})
  /\ UNCHANGED <<disk, dir, shown, selected, batch, deletes, chosen, editor, events>>

\* One request for each, all at once.  (One such batch at a time here.)
executeDelete ==
  /\ asked # {} /\ deletes = {}
  /\ deletes' = {Here(n) : n \in asked}
  /\ batch' = asked /\ asked' = {}
  /\ moved' = (moved /\ selected # {})
  /\ UNCHANGED <<disk, dir, shown, selected, chosen, editor, events>>

\* Mutant of Unticked: what was deleted stays selected.
UntickedNever(names) == selected

Unticked(names) == selected \ names

handleFileDelete(p) ==
  /\ p \in deletes
  /\ disk' = [q \in Path |-> IF q = p \/ q \in Sub(p) THEN "none" ELSE disk[q]]
  /\ deletes' = deletes \ {p}
  /\ IF deletes = {p}
     THEN /\ selected' = Unticked(batch) /\ batch' = {}
          /\ chosen' = chosen \ (Dir \X (batch \ asked))
          /\ moved' = (moved /\ selected' \cup asked # {})
     ELSE UNCHANGED <<selected, batch, chosen, moved>>
  /\ UNCHANGED <<dir, shown, asked, editor, events>>

\* One answer that fails, and nothing is unticked.
DeleteFails(p) ==
  /\ p \in deletes /\ Event
  /\ deletes' = deletes \ {p} /\ batch' = {}
  /\ UNCHANGED <<disk, dir, shown, selected, asked, chosen, moved, editor>>

-----------------------------------------------------------------------------
(* Requests from the list that change files.                               *)

FilesOnly == Listing /\ asked = {} /\ Event /\ UNCHANGED <<listing, editor>>

\* A file that is there is emptied.
handleFileCreate(n) ==
  /\ FilesOnly
  /\ Writable(Here(n))
  /\ disk' = Written(Here(n), "text")

handleFileCreateDirectory ==
  /\ FilesOnly
  /\ dir = "Top" /\ disk[Here(SubName)] = "none"
  /\ disk' = [disk EXCEPT ![Here(SubName)] = "dir"]

handleFileUpload(n, f) ==
  /\ FilesOnly
  /\ Writable(Here(n))
  /\ disk' = Written(Here(n), f)

\* The new name's file is replaced.
handleFileRename(n, m) ==
  /\ FilesOnly
  /\ n # m /\ n \in shown /\ IsFile(Here(n)) /\ disk[Here(m)] # "dir"
  /\ disk' = [disk EXCEPT ![Here(m)] = disk[Here(n)], ![Here(n)] = "none"]

\* The zip of that name is truncated first, and removed when the walk fails.
handleFileCompress(n) ==
  /\ FilesOnly
  /\ n # ZipName /\ n \in shown /\ disk[Here(n)] # "none" /\ Writable(Here(ZipName))
  /\ \E f \in {"zip", "none"} : disk' = [disk EXCEPT ![Here(ZipName)] = f]

\* By the first bytes.  bzip2 is not among those it knows.
detectArchiveType(p) == IF disk[p] \in {"zip", "gzip", "tar"} THEN disk[p] ELSE "unknown"

\* Entries are written over what is there, ...
Extracted(names) ==
  [p \in Path |-> IF p[1] = dir /\ p[2] \in names THEN "text" ELSE disk[p]]

\* ... until one fails.
handleFileDecompress(n) ==
  /\ FilesOnly
  /\ n \in shown /\ IsFile(Here(n)) /\ detectArchiveType(Here(n)) # "unknown"
  /\ \E names \in SUBSET {m \in Name : Writable(Here(m))} : disk' = Extracted(names)

-----------------------------------------------------------------------------
(* The editor.                                                             *)

\* Mutant of Fetched: a text that was loaded before is taken for this file's.
FetchedOnce(p) == IF content.of = NoPath THEN loads \cup {p} ELSE loads

Fetched(p) == loads \cup {p}

openEditor(n) ==
  /\ Listing /\ asked = {} /\ n \in shown /\ Here(n) # <<"Top", SubName>> /\ Event
  /\ editing' = Here(n)
  /\ loads' = Fetched(Here(n))
  /\ loading' = (loads' # loads \/ Here(n) \in loads)
  /\ crossed' = (loads # {})
  /\ UNCHANGED <<disk, listing, content, mounted, saving, saves>>

\* The answer fills the editor, whatever file it is open on by now.  The line
\* shown for a file that cannot be read, is a directory or is too large is a
\* text like any other.  The editor appears, and its shortcut keeps the text it
\* appeared with.
handleFileRead(p) ==
  /\ p \in loads
  /\ loads' = loads \ {p}
  /\ \E ok \in {IsFile(p), FALSE} :
       /\ IF ok THEN UNCHANGED events ELSE Event
       /\ content' = [of |-> IF ok THEN p ELSE ErrorText, edited |-> FALSE]
  /\ loading' = FALSE
  /\ mounted' = IF editing # NoPath /\ loading
                THEN [path |-> editing, of |-> content'.of, edited |-> FALSE] ELSE mounted
  /\ UNCHANGED <<disk, listing, editing, saving, saves, crossed>>

Edit ==
  /\ editing # NoPath /\ ~loading /\ ~content.edited
  /\ content' = [content EXCEPT !.edited = TRUE]
  /\ UNCHANGED <<disk, listing, editing, loading, loads, mounted, saving, saves, crossed, events>>

CloseEditor ==
  /\ editing # NoPath
  /\ editing' = NoPath
  /\ UNCHANGED <<disk, listing, content, loading, loads, mounted, saving, saves, crossed, events>>

\* The button works while the file is loading, and after it has failed to.
saveFile ==
  /\ editing # NoPath /\ ~saving /\ Event
  /\ saves' = saves \cup {[path |-> editing, of |-> content.of, edited |-> content.edited,
       hasty |-> loading \/ crossed \/ content.of = ErrorText]}
  /\ saving' = TRUE
  /\ UNCHANGED <<disk, listing, editing, content, loading, loads, mounted, crossed>>

SaveShortcut ==
  /\ editing # NoPath /\ ~loading /\ mounted.path # NoPath /\ Event
  /\ saves' = saves \cup {[path |-> mounted.path, of |-> mounted.of, edited |-> mounted.edited,
       hasty |-> crossed \/ mounted.of = ErrorText]}
  /\ saving' = TRUE
  /\ UNCHANGED <<disk, listing, editing, content, loading, loads, mounted, crossed>>

\* The answer closes the editor, whatever file it is open on by now.
handleFileWrite(s) ==
  /\ s \in saves
  /\ Writable(s.path)
  /\ disk' = Written(s.path, "text")
  /\ saves' = saves \ {s}
  /\ saving' = FALSE /\ editing' = NoPath
  /\ UNCHANGED <<listing, content, loading, loads, mounted, crossed, events>>

SaveFails(s) ==
  /\ s \in saves
  /\ IF Writable(s.path) THEN Event ELSE UNCHANGED events
  /\ saves' = saves \ {s}
  /\ saving' = FALSE
  /\ UNCHANGED <<disk, listing, editing, content, loading, loads, mounted, crossed>>

-----------------------------------------------------------------------------
\* What the buttons of the page do.
ListStep ==
  \/ handleFileList \/ Navigate \/ handleDeleteSelected \/ onCancel \/ executeDelete
  \/ \E n \in Name : toggleSelect(n) \/ handleDelete(n)

EditorStep ==
  \/ Edit \/ CloseEditor \/ saveFile \/ SaveShortcut
  \/ \E n \in Name : openEditor(n)
  \/ \E p \in Path : handleFileRead(p)
  \/ \E s \in saves : handleFileWrite(s) \/ SaveFails(s)

FileStep ==
  \/ handleFileCreateDirectory
  \/ \E n \in Name :
       \/ handleFileCreate(n) \/ handleFileCompress(n) \/ handleFileDecompress(n)
       \/ \E f \in Format : handleFileUpload(n, f)
       \/ \E m \in Name : handleFileRename(n, m)
  \/ \E p \in Path : handleFileDelete(p) \/ DeleteFails(p)

Next == ListStep \/ EditorStep \/ FileStep

Spec == Init /\ [][Next]_vars

-----------------------------------------------------------------------------
(* Properties.                                                             *)

\* Only what was ticked, or picked in the menu of its row, is ever deleted,
\* unless the user changed the directory with names ticked: the selection holds
\* names, and means those of the directory it is used in.
OnlyChosenDeleted == [][~moved => deletes' \ deletes \subseteq chosen]_vars

\* No file is overwritten with the text of another: what is saved under a path
\* was loaded from it, unless the button was pressed before the file was there,
\* or two of them were being loaded and the later answer was the earlier file's.
SavesItsOwn == \A s \in saves : s.hasty \/ s.of = s.path
=============================================================================
