----------------------------- MODULE Workspace -----------------------------
(* The workspace (core/src/workspace.rs): arenas of buffers and of views,  *)
(* the flat list of windows, focus, the buffer list and the alternate      *)
(* buffer; and the commands of the session that delete buffers, close      *)
(* windows, reload and quit (app/session.rs, app/dispatch.rs).             *)
(*                                                                         *)
(* A buffer is the length of its text and its modified flag, a view is its *)
(* buffer and its cursor.  How an edit carries a position that touches it  *)
(* is LineMap's; here such a cursor may land anywhere in the new text.     *)
(* Names, options, registers and the split direction are left out.         *)
EXTENDS Naturals, Sequences, SequencesExt, FiniteSets, FiniteSetsExt

CONSTANTS
    MaxLen,        \* bound: bytes in a buffer
    MaxDocs,       \* bound: buffer slots, which are not reused
    MaxViews,      \* bound: view slots, which are not reused
    MaxWindows     \* bound: windows on screen

ASSUME WorkspaceAssumption == {MaxLen, MaxDocs, MaxViews, MaxWindows} \subseteq Nat \ {0}

NoBuffer == 0
Retired == [live |-> FALSE, len |-> 0, modified |-> FALSE]
Doc(n, m) == [live |-> TRUE, len |-> n, modified |-> m]
RetiredView == [doc |-> NoBuffer, cursor |-> 0]
View(d, c) == [doc |-> d, cursor |-> c]

VARIABLES
    docs,       \* slot i holds buffer i, or is retired
    views,      \* slot i holds view i, or is retired
    windows,    \* the views on screen, in tile order
    focus,      \* the focused window
    order,      \* buffer_order: what `:ls` lists
    alt,        \* the alternate buffer, or none
    quit        \* has `:q`, `:q!` or `:qa` ended the editor?

workspaceVars == <<docs, views, windows, focus, order, alt, quit>>

----------------------------------------------------------------------------

DocLive(d) == d \in DOMAIN docs /\ docs[d].live
FocusedView == windows[focus]
FocusedBuffer == views[FocusedView].doc
Room(n) == Len(views) + n <= MaxViews

\* buffers: the listed buffers that are live.
Listed == {d \in Range(order) : DocLive(d)}

\* Variant: any view of the buffer.
AnyView(d) == {v \in DOMAIN views : views[v].doc = d}

\* The views of buffer d that no other window shows.
Reusable(d) ==
    {v \in DOMAIN views :
        views[v].doc = d /\ \A w \in DOMAIN windows \ {focus} : windows[w] # v}

\* view_for_buffer: the oldest reusable view, or a fresh view when every one is on screen.
ShowInFocused(d) ==
    IF Reusable(d) # {}
    THEN /\ windows' = [windows EXCEPT ![focus] = Min(Reusable(d))]
         /\ UNCHANGED views
    ELSE /\ Room(1)
         /\ views' = Append(views, View(d, 0))
         /\ windows' = [windows EXCEPT ![focus] = Len(views) + 1]

\* `:keepalt` puts the alternate that was usable back after its command.
Alternate == IF DocLive(alt) THEN alt ELSE NoBuffer
AltAfter(a, keep) == alt' = IF keep THEN Alternate ELSE a

----------------------------------------------------------------------------
(* Editing: the swap-trick.                                                *)

\* Where a resting view's cursor may be in n bytes after an edit at `at`: what
\* precedes the edit stays, the rest goes where the line rule takes it.
Carried(c, at, n) == IF c < at THEN {c} ELSE 0 .. n

\* Variant: only the lent view follows its edit.
PinsNothing(v, at, n) == {views[v].cursor}

\* lend pins the cursor of every other view of the document; reclaim reads
\* it back.
Pinned(v, at, n) ==
    IF views[v].doc = FocusedBuffer THEN Carried(views[v].cursor, at, n)
    ELSE {views[v].cursor}

CursorsTo(cursors) ==
    views' = [v \in DOMAIN views |-> [views[v] EXCEPT !.cursor = cursors[v]]]

\* A command that edits through the focused view.  An undo or redo to the
\* saved node leaves the buffer unmodified.
Apply(at, del, ins, m) ==
    LET d == FocusedBuffer
        n == docs[d].len - del + ins
    IN  /\ del + ins > 0 /\ at + del <= docs[d].len /\ n <= MaxLen
        /\ docs' = [docs EXCEPT ![d] = Doc(n, m)]
        /\ \E cursors \in [DOMAIN views -> 0 .. MaxLen] :
              /\ cursors[FocusedView] <= n
              /\ \A v \in DOMAIN views \ {FocusedView} :
                    cursors[v] \in Pinned(v, at, n)
              /\ CursorsTo(cursors)
        /\ UNCHANGED <<windows, focus, order, alt, quit>>

\* place_focused_cursor, and every motion.
PlaceCursor(c) ==
    /\ c <= docs[FocusedBuffer].len /\ c # views[FocusedView].cursor
    /\ views' = [views EXCEPT ![FocusedView].cursor = c]
    /\ UNCHANGED <<docs, windows, focus, order, alt, quit>>

MarkSaved(d) ==
    /\ DocLive(d) /\ docs[d].modified
    /\ docs' = [docs EXCEPT ![d].modified = FALSE]
    /\ UNCHANGED <<views, windows, focus, order, alt, quit>>

\* snap, on a position that may be past the end.
Snap(c, n) == IF c > n THEN n ELSE c

\* `:e!` of the focused buffer: its cursor goes to the top; other views of
\* the buffer are clamped.
ReloadFocused(n) ==
    LET d == FocusedBuffer
    IN  /\ docs' = [docs EXCEPT ![d] = Doc(n, FALSE)]
        /\ views' = [v \in DOMAIN views |->
                        IF v = FocusedView THEN View(d, 0)
                        ELSE IF views[v].doc = d
                             THEN View(d, Snap(views[v].cursor, n)) ELSE views[v]]
        /\ UNCHANGED <<windows, focus, order, alt, quit>>

\* 'autoread' of an unmodified buffer.  Its views are clamped; those of the
\* focused buffer were carried through the change before that.
ReloadUndoable(d, n) ==
    /\ DocLive(d) /\ ~docs[d].modified
    /\ docs' = [docs EXCEPT ![d] = Doc(n, FALSE)]
    /\ \E cursors \in [DOMAIN views -> 0 .. MaxLen] :
          /\ \A v \in DOMAIN views :
                IF views[v].doc = d /\ d = FocusedBuffer
                THEN cursors[v] <= n
                ELSE cursors[v] = IF views[v].doc = d THEN Snap(views[v].cursor, n)
                                  ELSE views[v].cursor
          /\ CursorsTo(cursors)
    /\ UNCHANGED <<windows, focus, order, alt, quit>>

----------------------------------------------------------------------------
(* Windows.                                                                *)

FocusWindow(i) ==
    /\ i \in DOMAIN windows \ {focus}
    /\ focus' = i
    /\ UNCHANGED <<docs, views, windows, order, alt, quit>>

\* The new window shows a clone of the focused view.
Split ==
    /\ Room(1) /\ Len(windows) < MaxWindows
    /\ views' = Append(views, views[FocusedView])
    /\ windows' = InsertAt(windows, focus + 1, Len(views) + 1)
    /\ focus' = focus + 1
    /\ UNCHANGED <<docs, order, alt, quit>>

\* The neighbour: the next window, or the last one.
FocusAfterClose(ws) == IF focus > Len(ws) THEN Len(ws) ELSE focus

\* close_focused retires the view; its buffer stays.
CloseFocused ==
    LET ws == RemoveAt(windows, focus)
    IN  /\ Len(windows) > 1
        /\ windows' = ws
        /\ views' = [views EXCEPT ![FocusedView] = RetiredView]
        /\ focus' = FocusAfterClose(ws)
        /\ UNCHANGED <<docs, order, alt, quit>>

Only ==
    /\ Len(windows) > 1
    /\ views' = [v \in DOMAIN views |->
                    IF v # FocusedView /\ v \in Range(windows) THEN RetiredView
                    ELSE views[v]]
    /\ windows' = <<FocusedView>>
    /\ focus' = 1
    /\ UNCHANGED <<docs, order, alt, quit>>

----------------------------------------------------------------------------
(* Buffers.                                                                *)

\* `:enew`, `:e {file}`, `:terminal`: add_buffer makes the buffer with a view
\* and focus_buffer shows that view.
AddBuffer(n, keep) ==
    LET d == Len(docs) + 1
    IN  /\ d <= MaxDocs /\ Room(1)
        /\ docs' = Append(docs, Doc(n, FALSE))
        /\ order' = Append(order, d)
        /\ views' = Append(views, View(d, 0))
        /\ windows' = [windows EXCEPT ![focus] = Len(views) + 1]
        /\ AltAfter(FocusedBuffer, keep)
        /\ UNCHANGED <<focus, quit>>

\* focus_buffer: `:b`, `:bnext`, `:bprevious`.
FocusBuffer(d, keep) ==
    /\ DocLive(d) /\ d # FocusedBuffer
    /\ ShowInFocused(d)
    /\ AltAfter(FocusedBuffer, keep)
    /\ UNCHANGED <<docs, focus, order, quit>>

\* The alternate, else the next listed buffer around the list; none when d is
\* the only one.
Replacement(d) ==
    LET at == CHOOSE i \in DOMAIN order : order[i] = d
        around == SubSeq(order, at + 1, Len(order)) \o SubSeq(order, 1, at - 1)
    IN  IF alt # d /\ DocLive(alt) THEN alt
        ELSE IF around # <<>> THEN around[1] ELSE NoBuffer

Showing(d) == {w \in DOMAIN windows : views[windows[w]].doc = d}

\* retain; the list holds d once (HandlesAreLive).
Unlist(list, d) == RemoveFirst(list, d)

\* `:bd`: every window on d gets a view of its own of the replacement (a
\* scratch buffer, with a hidden view besides, when d was the last), then d
\* and every view of it are retired.
BufferDelete(force, keep) ==
    LET d == FocusedBuffer
        last == Replacement(d) = NoBuffer
        r == IF last THEN Len(docs) + 1 ELSE Replacement(d)
        kept == IF last THEN Append(views, View(r, 0)) ELSE views
        shown == Showing(d)
        nth(w) == Cardinality({x \in shown : x <= w})
        fresh == [i \in 1 .. Cardinality(shown) |-> View(r, 0)]
        gone(v) == IF v.doc = d THEN RetiredView ELSE v
    IN  /\ force \/ ~docs[d].modified
        /\ last => Len(docs) < MaxDocs
        /\ Len(kept) + Cardinality(shown) <= MaxViews
        /\ docs' = LET ds == IF last THEN Append(docs, Doc(0, FALSE)) ELSE docs
                   IN  [ds EXCEPT ![d] = Retired]
        /\ views' = [v \in DOMAIN kept |-> gone(kept[v])] \o fresh
        /\ windows' = [w \in DOMAIN windows |->
                          IF w \in shown THEN Len(kept) + nth(w) ELSE windows[w]]
        /\ order' = Unlist(IF last THEN Append(order, r) ELSE order, d)
        /\ AltAfter(IF alt = d THEN NoBuffer ELSE alt, keep)
        /\ UNCHANGED <<focus, quit>>

----------------------------------------------------------------------------
(* Quitting.                                                               *)

\* Variant: looks at the buffers on screen.
MayQuitShown(force) ==
    \A w \in DOMAIN windows : force \/ ~docs[views[windows[w]].doc].modified

\* may_quit: no modified buffer, except the focused one when forced.
MayQuit(force) ==
    \A d \in Listed : docs[d].modified => force /\ d = FocusedBuffer

\* quit_window on the last window; with more windows it is CloseFocused.
QuitWindow(force) ==
    /\ Len(windows) = 1 /\ MayQuit(force)
    /\ quit' = TRUE
    /\ UNCHANGED <<docs, views, windows, focus, order, alt>>

\* `:qa`; `:qa!` and `:cq` ask nothing and are left out.
QuitAll ==
    /\ MayQuit(FALSE)
    /\ quit' = TRUE
    /\ UNCHANGED <<docs, views, windows, focus, order, alt>>

----------------------------------------------------------------------------

WorkspaceInit ==
    /\ \E n \in 0 .. MaxLen : docs = <<Doc(n, FALSE)>>
    /\ views = <<View(1, 0)>>
    /\ windows = <<1>>
    /\ focus = 1
    /\ order = <<1>>
    /\ alt = NoBuffer
    /\ quit = FALSE

WorkspaceNext ==
    /\ ~quit
    /\ \/ \E at, del, ins \in 0 .. MaxLen, m \in BOOLEAN : Apply(at, del, ins, m)
       \/ \E c \in 0 .. MaxLen : PlaceCursor(c)
       \/ \E n \in 0 .. MaxLen : ReloadFocused(n)
       \/ \E d \in DOMAIN docs :
             \/ MarkSaved(d)
             \/ \E n \in 0 .. MaxLen : ReloadUndoable(d, n)
             \/ \E keep \in BOOLEAN : FocusBuffer(d, keep)
       \/ \E i \in DOMAIN windows : FocusWindow(i)
       \/ Split \/ CloseFocused \/ Only
       \/ \E n \in 0 .. MaxLen, keep \in BOOLEAN : AddBuffer(n, keep)
       \/ \E force, keep \in BOOLEAN : BufferDelete(force, keep)
       \/ \E force \in BOOLEAN : QuitWindow(force)
       \/ QuitAll

WorkspaceSpec == WorkspaceInit /\ [][WorkspaceNext]_workspaceVars

----------------------------------------------------------------------------

\* Every variable keeps its type.
WorkspaceTypeOK ==
    /\ docs \in Seq([live : BOOLEAN, len : 0 .. MaxLen, modified : BOOLEAN])
    /\ Len(docs) \in 1 .. MaxDocs
    /\ views \in Seq([doc : 0 .. MaxDocs, cursor : 0 .. MaxLen])
    /\ Len(views) \in 1 .. MaxViews
    /\ windows \in Seq(1 .. MaxViews)
    /\ Len(windows) \in 1 .. MaxWindows
    /\ focus \in 1 .. MaxWindows
    /\ order \in Seq(1 .. MaxDocs)
    /\ alt \in 0 .. MaxDocs
    /\ quit \in BOOLEAN

\* assert_invariants, handles: every view, shown or hidden, shows a live
\* buffer, every window a live view of its own, focus names a window, and the
\* buffer list holds each live buffer once, so that `:ls`, `:bnext` and the
\* quit check reach every hidden one.
HandlesAreLive ==
    /\ WorkspaceTypeOK
    /\ \A v \in DOMAIN views : views[v] # RetiredView => DocLive(views[v].doc)
    /\ focus \in DOMAIN windows
    /\ \A w \in DOMAIN windows :
          windows[w] \in DOMAIN views /\ views[windows[w]] # RetiredView
    /\ IsInjective(windows) /\ IsInjective(order)
    /\ Range(order) = {d \in DOMAIN docs : docs[d].live}

\* assert_invariants, positions: an edit, a reload or an undo through one
\* view leaves no other view's cursor past the end of the shared text.
CursorsInText ==
    \A v \in DOMAIN views :
        views[v] # RetiredView => views[v].cursor <= docs[views[v].doc].len

\* "`:q!` can never silently drop work the user cannot see" (quit_window):
\* ruse ends with no modified buffer but the focused one, however the others
\* were hidden.
QuitDropsNothingUnseen ==
    quit =>
        \A d \in DOMAIN docs : docs[d].live /\ docs[d].modified => d = FocusedBuffer

=============================================================================
